---- MODULE Spec2Model ----
(***************************************************************************)
(* b1b - bonding mode 1 bridge helper.                                     *)
(*                                                                         *)
(* A model of the daemon's event pipeline: the bond inventory (bond.c),    *)
(* the OVS bridge resolution and FDB reader (ovs.c), the native bridge FDB *)
(* reader (bridge.c), the FDB set (fdbtree.c), the gratuitous ARP emitter  *)
(* (garp.c) and the multicast event dispatcher (netlink.c, main.c).        *)
(*                                                                         *)
(* The module holds eight specifications over one set of variables:        *)
(*   SpecInv   inventory construction (b1b_parse_bonds, b1b_detect_bonds)  *)
(*   SpecOvs   b1b_get_ovs_info over dpif/show listings                    *)
(*   SpecTree  b1b_fdb_add and b1b_fdb_free on one bond's set              *)
(*   SpecFdb   the two FDB readers on the bonds of an inventory            *)
(*   SpecGarp  b1b_send_garp and its static frame buffers                  *)
(*   Spec      the event loop, started from the state setup leaves         *)
(*   SpecSig   the event loop under SIGTERM and SIGINT, and the exit       *)
(*   SpecSigFair  SpecSig with the process always taking its next step      *)
(***************************************************************************)
EXTENDS Integers, Sequences, FiniteSets, TLC

VARIABLES
    pc,            \* where the process is
    littleEndian,  \* __BYTE_ORDER__ of the build (garp.c:26-32)
    args,          \* argv[bindex..argc-1], the positional arguments
    links,         \* the kernel's link table, in dump order
    listing,       \* the lines of ovs-vswitchd's dpif/show result
    bonds,         \* gs->bonds[0..bcount-1]
    bi,            \* the index of the bond under service, 0 when none is
    fdbreply,      \* the FDB dump the reader last ran on
    added,         \* the destinations handed to b1b_fdb_add since the set was empty
    macs,          \* static struct b1b_eth_macs macs of b1b_send_garp, as bytes
    vlan,          \* static struct b1b_vlan_hdr vlan, as bytes
    arp,           \* static struct b1b_arp arp, as bytes
    sll,           \* static struct sockaddr_ll sll
    iovs,          \* static struct iovec iovs[3]
    msg,           \* static struct msghdr msg
    sent,          \* the frames handed to sendmsg, in order
    queue,         \* the datagrams waiting on the multicast socket
    parse_error,   \* parse_error of b1b_mcast_process
    drained,       \* the messages received in the current poll cycle
    calls,         \* the getfdb and b1b_send_garps calls of the current poll cycle
    narrived,      \* the number of multicast messages that have arrived
    socks,         \* the sockets of gs that are open
    sigmask,       \* the signals the process has blocked
    ppmask,        \* ppmask of main: <<>> until sigprocmask has stored the old mask
    sigpending,    \* the signals sent to the process and not yet delivered
    sigact,        \* the disposition of each termination signal
    b1b_exit_flag, \* static sig_atomic_t b1b_exit_flag
    sigsent,       \* the signals sent so far, each with the flag's value then
    failing,       \* the sendmsg calls of a poll cycle that fail, by their number
    errlog,        \* the B1B_ERR messages of the current poll cycle and the exit path
    released,      \* the resources b1b_gs_free has released, each with close's success
    cmdline,       \* argv[1..argc-1] of main
    b1b_debug,     \* _Bool b1b_debug
    b1b_use_syslog, \* static _Bool b1b_use_syslog
    seq,           \* static unsigned int seq of b1b_nlmsg_req, as <<high, low>> halves
    nlhdr,         \* nlmsg_flags and nlmsg_seq of gs->nlmsg
    reqs,          \* the headers of the requests made through the transport under study
    reqin,         \* what the socket held for the last of them
    reqout,        \* its result, the datagrams it received, the messages its callback got
    reqid,         \* static uint64_t reqid of b1b_ovs_rpc_send
    rpcs           \* the JSON-RPC exchanges so far: request, response, outcome

(***************************************************************************)
(* Bounds of the model.                                                    *)
(***************************************************************************)
MaxLinks == 2
MaxLines == 3
MaxArgs == 2
MaxFrames == 3
MaxAdds == 3
MaxRows == 2
MaxEvents == 3
MaxFailovers == 1
MaxSignals == 2

(***************************************************************************)
(* Program constants.                                                      *)
(***************************************************************************)
MNL_CB_ERROR == -1
MNL_CB_STOP == 0
MNL_CB_OK == 1
\* B1B_ABORT() inside a callback ends the process; it is carried up the
\* callback chain as a result below MNL_CB_ERROR.
CB_ABORT == MNL_CB_ERROR - 1

B1B_BR_TYPE_NONE == 0
B1B_BR_TYPE_LINUX == 1
B1B_BR_TYPE_OVS == 2
B1B_BR_TYPE_OTHER == 3

B1B_IF_TYPE_NONE == 0
B1B_IF_TYPE_BOND == 1
B1B_IF_TYPE_OTHER == 2

ModeUnset == 255

\* enum value of <linux/if_link.h>, compared in b1b_mc_attr_cb.
IFLA_EVENT_BONDING_FAILOVER == 3

NullStr == "NULL"

\* The union { fdbtree, next } of struct b1b_bond_session.  ptr is the list
\* link (0 is NULL, k > 0 the k-th list cell allocated by b1b_auto_msg_cb);
\* nodes is the in-order node sequence of the AVL tree rooted there.
NullRoot == [ptr |-> 0, nodes |-> <<>>]

\* A struct b1b_bond_session as B1B_ZALLOC returns it.  The field
\* failover_event is the one byte the union { iftype, on_bridge,
\* failover_event } occupies.
ZeroBs ==
    [brname |-> NullStr, ifname |-> NullStr, getfdb |-> "NULL",
     fdbtree |-> NullRoot, ifindex |-> 0, brindex |-> 0, ofport |-> 0,
     brtype |-> B1B_BR_TYPE_NONE, mode |-> 0, failover_event |-> 0]

(***************************************************************************)
(* The environment: kernel links and their RTM_NEWLINK messages.           *)
(***************************************************************************)
\* A netlink attribute: its type, and its payload as a string (s), a number
\* (n), or nested attributes or raw bytes (sub).
Attr(t, s, n, sub) == [t |-> t, s |-> s, n |-> n, sub |-> sub]

\* A link is [ifindex, ifname, kind, mode, master]: kind "none" has no
\* IFLA_LINKINFO, mode -1 no IFLA_INFO_DATA, master 0 no IFLA_MASTER.
Link(ifindex, ifname, kind, mode, master) ==
    [ifindex |-> ifindex, ifname |-> ifname, kind |-> kind, mode |-> mode,
     master |-> master]

\* The kernel fills IFLA_IFNAME, then IFLA_MASTER, then IFLA_LINKINFO
\* (IFLA_INFO_KIND before IFLA_INFO_DATA).
NewlinkMsg(l, multi) ==
    [type |-> "RTM_NEWLINK", multi |-> multi, ifi_index |-> l.ifindex,
     ndm_ifindex |-> 0, ndm_state |-> 0,
     attrs |->
        <<Attr("IFLA_IFNAME", l.ifname, 0, <<>>)>>
        \o (IF l.master # 0
            THEN <<Attr("IFLA_MASTER", "", l.master, <<>>)>> ELSE <<>>)
        \o (IF l.kind # "none"
            THEN <<Attr("IFLA_LINKINFO", "", 0,
                     <<Attr("IFLA_INFO_KIND", l.kind, 0, <<>>)>>
                     \o (IF l.mode # -1
                         THEN <<Attr("IFLA_INFO_DATA", "", 0,
                                  <<Attr("IFLA_BOND_MODE", "", l.mode, <<>>)>>)>>
                         ELSE <<>>))>>
            ELSE <<>>)]

ErrorMsg ==
    [type |-> "NLMSG_ERROR", multi |-> FALSE, ifi_index |-> 0,
     ndm_ifindex |-> 0, ndm_state |-> 0, attrs |-> <<>>]
DoneMsg ==
    [type |-> "NLMSG_DONE", multi |-> TRUE, ifi_index |-> 0,
     ndm_ifindex |-> 0, ndm_state |-> 0, attrs |-> <<>>]

\* The masters a candidate link may be enslaved to.
BridgeLinks ==
    << Link(10, "br0", "bridge", -1, 0),
       Link(11, "ovs-system", "openvswitch", -1, 0),
       Link(12, "br-int", "openvswitch", -1, 0),
       Link(13, "vrf0", "vrf", -1, 0),
       Link(14, "tap0", "none", -1, 0),
       Link(15, "br-ex", "openvswitch", -1, 0) >>

\* The OVS datapath device: the master the kernel reports for an OVS port.
DatapathIndex == BridgeLinks[2].ifindex

AllLinks(ls) == ls \o BridgeLinks

SeqToSet(s) == { s[k] : k \in 1..Len(s) }

\* The alternative names of a link: the kernel looks a link up by them as
\* well, and answers with IFLA_IFNAME.
AltNames(l) == IF l.ifname = "bond1" THEN {"uplink"} ELSE {}

\* The kernel's reply to RTM_GETLINK by name or by index.
GetlinkReply(ls, ifname, ifindex) ==
    LET all == AllLinks(ls)
        hit == { k \in 1..Len(all) :
                    IF ifname # NullStr
                    THEN all[k].ifname = ifname \/ ifname \in AltNames(all[k])
                    ELSE all[k].ifindex = ifindex }
    IN IF hit = {} THEN <<ErrorMsg>>
       ELSE <<NewlinkMsg(all[CHOOSE k \in hit : \A j \in hit : k <= j], FALSE)>>

\* The kernel's reply to the RTM_GETLINK dump: every link, then NLMSG_DONE.
DumpReply(ls) ==
    LET all == AllLinks(ls)
    IN [k \in 1..Len(all) |-> NewlinkMsg(all[k], TRUE)] \o <<DoneMsg>>

(***************************************************************************)
(* bond.c: RTM_NEWLINK parsing.                                            *)
(***************************************************************************)
Res(ret, data) == [ret |-> ret, data |-> data]

\* A result stored in a local variable (int result; and the like), and the
\* code that goes on from there.
Let(result, Then(_)) == Then(result)

\* b1b_check_bs without the test of the bonding mode's value.
CheckBsAnyMode(bs) ==
    /\ bs.failover_event # B1B_IF_TYPE_NONE
    /\ bs.failover_event # B1B_IF_TYPE_OTHER
    /\ bs.mode # ModeUnset
    /\ bs.brindex # 0

\* b1b_check_bs: is the session complete and valid?  (What is logged, and
\* whether the process exits, is the caller's b1b_bs_check_type.)
b1b_check_bs(bs) ==
    /\ bs.failover_event # B1B_IF_TYPE_NONE
    /\ bs.failover_event # B1B_IF_TYPE_OTHER
    /\ bs.mode # ModeUnset
    /\ bs.mode = 1
    /\ bs.brindex # 0

\* b1b_bs_ld_cb: attributes nested in IFLA_INFO_DATA.
b1b_bs_ld_cb(attr, bs) ==
    IF attr.t = "IFLA_BOND_MODE"
    THEN LET b == [bs EXCEPT !.mode = attr.n % 256]
         IN Res(IF b1b_check_bs(b) THEN MNL_CB_STOP ELSE MNL_CB_OK, b)
    ELSE Res(MNL_CB_OK, bs)

RECURSIVE mnl_attr_parse(_, _, _)

\* b1b_bs_linkinfo_cb: attributes nested in IFLA_LINKINFO.
b1b_bs_linkinfo_cb(attr, bs) ==
    IF attr.t = "IFLA_INFO_KIND"
    THEN IF attr.s = "bond"
         THEN Res(MNL_CB_OK, [bs EXCEPT !.failover_event = B1B_IF_TYPE_BOND])
         ELSE Res(MNL_CB_STOP, [bs EXCEPT !.failover_event = B1B_IF_TYPE_OTHER])
    ELSE IF attr.t = "IFLA_INFO_DATA"
    THEN IF bs.failover_event = B1B_IF_TYPE_BOND
         THEN mnl_attr_parse("b1b_bs_ld_cb", attr.sub, bs)
         ELSE Res(CB_ABORT, bs)
    ELSE Res(MNL_CB_OK, bs)

\* b1b_bs_attr_cb: top level attributes of an RTM_NEWLINK message.
b1b_bs_attr_cb(attr, bs) ==
    IF attr.t = "IFLA_LINKINFO"
    THEN mnl_attr_parse("b1b_bs_linkinfo_cb", attr.sub, bs)
    ELSE LET b == IF attr.t = "IFLA_IFNAME" THEN [bs EXCEPT !.ifname = attr.s]
                  ELSE IF attr.t = "IFLA_MASTER" THEN [bs EXCEPT !.brindex = attr.n]
                  ELSE bs
         IN Res(IF b1b_check_bs(b) THEN MNL_CB_STOP ELSE MNL_CB_OK, b)

\* b1b_br_linkinfo_cb: the master's IFLA_INFO_KIND decides the bridge type.
b1b_br_linkinfo_cb(attr, bs) ==
    IF attr.t = "IFLA_INFO_KIND"
    THEN LET b == [bs EXCEPT !.brtype =
                      IF attr.s = "openvswitch" THEN B1B_BR_TYPE_OVS
                      ELSE IF attr.s = "bridge" THEN B1B_BR_TYPE_LINUX
                      ELSE B1B_BR_TYPE_OTHER]
         IN Res(IF b.brname # NullStr THEN MNL_CB_STOP ELSE MNL_CB_OK, b)
    ELSE Res(MNL_CB_OK, bs)

\* b1b_br_attr_cb: top level attributes of the master's RTM_NEWLINK.
b1b_br_attr_cb(attr, bs) ==
    IF attr.t = "IFLA_IFNAME"
    THEN LET b == [bs EXCEPT !.brname = attr.s]
         IN Res(IF b.brtype # B1B_BR_TYPE_NONE THEN MNL_CB_STOP ELSE MNL_CB_OK, b)
    ELSE IF attr.t = "IFLA_LINKINFO"
    THEN mnl_attr_parse("b1b_br_linkinfo_cb", attr.sub, bs)
    ELSE Res(MNL_CB_OK, bs)

\* b1b_mc_attr_cb with the flag flipped at each failover event.
McAttrCbToggle(attr, bs) ==
    IF attr.t = "IFLA_EVENT"
    THEN IF attr.n = IFLA_EVENT_BONDING_FAILOVER
         THEN Res(MNL_CB_STOP, [bs EXCEPT !.failover_event = 1 - bs.failover_event])
         ELSE Res(MNL_CB_STOP, bs)
    ELSE Res(MNL_CB_OK, bs)

\* b1b_mc_attr_cb: IFLA_EVENT ends the parse; a bonding failover sets the
\* bond's flag, which a second one in the same cycle finds set.
b1b_mc_attr_cb(attr, bs) ==
    IF attr.t = "IFLA_EVENT"
    THEN IF attr.n = IFLA_EVENT_BONDING_FAILOVER
         THEN IF bs.failover_event # 0 THEN Res(MNL_CB_STOP, bs)
              ELSE Res(MNL_CB_STOP, [bs EXCEPT !.failover_event = 1])
         ELSE Res(MNL_CB_STOP, bs)
    ELSE Res(MNL_CB_OK, bs)

\* The attribute callback named cb, applied to one attribute.
AttrCb(cb, attr, data) ==
    CASE cb = "b1b_bs_attr_cb" -> b1b_bs_attr_cb(attr, data)
      [] cb = "b1b_bs_linkinfo_cb" -> b1b_bs_linkinfo_cb(attr, data)
      [] cb = "b1b_bs_ld_cb" -> b1b_bs_ld_cb(attr, data)
      [] cb = "b1b_br_attr_cb" -> b1b_br_attr_cb(attr, data)
      [] cb = "b1b_br_linkinfo_cb" -> b1b_br_linkinfo_cb(attr, data)
      [] cb = "b1b_mc_attr_cb" -> b1b_mc_attr_cb(attr, data)

\* libmnl's mnl_attr_parse / mnl_attr_parse_nested: the callback on each
\* attribute in turn, ended by the first result <= MNL_CB_STOP.
mnl_attr_parse(cb, attrs, data) ==
    IF attrs = <<>> THEN Res(MNL_CB_OK, data)
    ELSE Let(AttrCb(cb, Head(attrs), data),
             LAMBDA r : IF r.ret <= MNL_CB_STOP THEN r
                        ELSE mnl_attr_parse(cb, Tail(attrs), r.data))

\* b1b_bond_msg_cb: one RTM_NEWLINK message into a bond session.
b1b_bond_msg_cb(nlmsg, bs) ==
    IF nlmsg.type # "RTM_NEWLINK" THEN Res(MNL_CB_OK, bs)
    ELSE Let(mnl_attr_parse("b1b_bs_attr_cb", nlmsg.attrs,
                            [bs EXCEPT !.ifindex = nlmsg.ifi_index,
                                       !.mode = ModeUnset,
                                       !.ifname = IF @ = NullStr THEN "(index)" ELSE @]),
             LAMBDA r : IF r.ret <= MNL_CB_ERROR THEN Res(r.ret, r.data)
                        ELSE Res(MNL_CB_OK, r.data))

\* b1b_br_msg_cb: the master's RTM_NEWLINK into brname and brtype.
b1b_br_msg_cb(nlmsg, bs) ==
    IF nlmsg.type # "RTM_NEWLINK" THEN Res(MNL_CB_OK, bs)
    ELSE IF nlmsg.ifi_index # bs.brindex THEN Res(MNL_CB_OK, bs)
    ELSE Let(mnl_attr_parse("b1b_br_attr_cb", nlmsg.attrs,
                            [bs EXCEPT !.brtype = B1B_BR_TYPE_NONE,
                                       !.brname = NullStr]),
             LAMBDA r : IF r.ret <= MNL_CB_ERROR THEN Res(r.ret, r.data)
                        ELSE Res(MNL_CB_STOP, r.data))

\* b1b_ovs_msg_cb: the ifindex of the OVS bridge's own link.
b1b_ovs_msg_cb(nlmsg, bs) ==
    IF nlmsg.type # "RTM_NEWLINK" THEN Res(MNL_CB_OK, bs)
    ELSE Res(MNL_CB_STOP, [bs EXCEPT !.brindex = nlmsg.ifi_index])

(***************************************************************************)
(* b1b.h: struct b1b_dst and union b1b_fdb_dst.                            *)
(***************************************************************************)
Dst(vid, mac) == [vlan |-> vid, mac |-> mac]

MacZero == <<0, 0, 0, 0, 0, 0>>
MacBcast == <<255, 255, 255, 255, 255, 255>>
Mac1 == <<2, 0, 0, 0, 0, 1>>
Mac2 == <<2, 0, 0, 0, 0, 2>>

\* A uint16_t as it lies in memory on this build.
Host16(v) ==
    IF littleEndian THEN <<v % 256, v \div 256>> ELSE <<v \div 256, v % 256>>

\* The 8 bytes of a struct b1b_dst in memory order: vlan, then mac[0..5].
DstBytes(dst) == Host16(dst.vlan) \o dst.mac

Reverse(s) == [k \in 1..Len(s) |-> s[Len(s) + 1 - k]]

\* The member u64 of union b1b_fdb_dst, most significant byte first.
U64(bytes) == IF littleEndian THEN Reverse(bytes) ELSE bytes

RECURSIVE BitAnd(_, _)
\* a & b on naturals.
BitAnd(a, b) ==
    IF a = 0 \/ b = 0 THEN 0
    ELSE (a % 2) * (b % 2) + 2 * BitAnd(a \div 2, b \div 2)

\* a & b on two byte strings of one length.
BytesAnd(a, b) == [k \in 1..Len(a) |-> BitAnd(a[k], b[k])]

RECURSIVE U64Cmp(_, _)
\* -1, 0, 1 as the first uint64_t is below, equal to, above the second.
U64Cmp(a, b) ==
    IF a = <<>> THEN 0
    ELSE IF Head(a) < Head(b) THEN -1
    ELSE IF Head(a) > Head(b) THEN 1
    ELSE U64Cmp(Tail(a), Tail(b))

(***************************************************************************)
(* fdbtree.c: the per-bond set of destinations.                            *)
(***************************************************************************)
\* A struct b1b_dst_node: dst, and addr standing for the node's address.
DstNode(dst, addr) == [dst |-> dst, addr |-> addr]

\* b1b_fdb_cmp_cb: the search key against a node, as uint64_t.
b1b_fdb_cmp_cb(key, node) == U64Cmp(U64(key), U64(DstBytes(node.dst)))

\* savl_try_add: the position of the node whose key equals key, or 0.
SavlFind(nodes, key) ==
    LET hit == { k \in 1..Len(nodes) : b1b_fdb_cmp_cb(key, nodes[k]) = 0 }
    IN IF hit = {} THEN 0 ELSE CHOOSE k \in hit : TRUE

\* savl_try_add when the key is new: the node linked in at its key's place.
SavlInsert(nodes, key, dn) ==
    LET below == { k \in 1..Len(nodes) : b1b_fdb_cmp_cb(key, nodes[k]) > 0 }
        n == Cardinality(below)
    IN SubSeq(nodes, 1, n) \o <<dn>> \o SubSeq(nodes, n + 1, Len(nodes))

\* b1b_fdb_add had it used savl_add: on a duplicate key the new node takes
\* the place of the old one.
FdbAddReplace(nodes, dst, addr) ==
    IF SavlFind(nodes, DstBytes(dst)) # 0
    THEN [nodes EXCEPT ![SavlFind(nodes, DstBytes(dst))] = DstNode(dst, addr)]
    ELSE SavlInsert(nodes, DstBytes(dst), DstNode(dst, addr))

\* b1b_fdb_add on the tree with in-order nodes `nodes`: a duplicate key
\* leaves the tree as it is and the new node is freed.
b1b_fdb_add(nodes, dst, addr) ==
    IF SavlFind(nodes, DstBytes(dst)) # 0 THEN nodes
    ELSE SavlInsert(nodes, DstBytes(dst), DstNode(dst, addr))

\* b1b_fdb_free: every node released, the root reset to NULL.
b1b_fdb_free(bs) == [bs EXCEPT !.fdbtree = NullRoot]

(***************************************************************************)
(* bridge.c: the native bridge FDB reader.                                 *)
(***************************************************************************)
NUD_PERMANENT == 128

\* An RTM_NEWNEIGH row of the bridge FDB dump.  mac = <<>> is a row without
\* NDA_LLADDR, vid = -1 a row without NDA_VLAN.
NeighMsg(ifindex, state, mac, vid) ==
    [type |-> "RTM_NEWNEIGH", multi |-> TRUE, ifi_index |-> 0,
     ndm_ifindex |-> ifindex, ndm_state |-> state,
     attrs |->
        (IF mac # <<>> THEN <<Attr("NDA_LLADDR", "", 0, mac)>> ELSE <<>>)
        \o <<Attr("NDA_MASTER", "", 10, <<>>)>>
        \o (IF vid # -1 THEN <<Attr("NDA_VLAN", "", vid, <<>>)>> ELSE <<>>)]

\* b1b_br_fdb_attr_cb: NDA_LLADDR and NDA_VLAN into the destination.
b1b_br_fdb_attr_cb(attr, dst) ==
    IF attr.t = "NDA_LLADDR" THEN Res(MNL_CB_OK, [dst EXCEPT !.mac = attr.sub])
    ELSE IF attr.t = "NDA_VLAN" THEN Res(MNL_CB_OK, [dst EXCEPT !.vlan = attr.n])
    ELSE Res(MNL_CB_OK, dst)

RECURSIVE BrFdbAttrParse(_, _)
\* mnl_attr_parse with b1b_br_fdb_attr_cb.
BrFdbAttrParse(attrs, dst) ==
    IF attrs = <<>> THEN Res(MNL_CB_OK, dst)
    ELSE LET r == b1b_br_fdb_attr_cb(Head(attrs), dst)
         IN IF r.ret <= MNL_CB_STOP THEN r ELSE BrFdbAttrParse(Tail(attrs), r.data)

\* mac_mask of b1b_br_fdb_msg_cb: vlan 0, mac ff:ff:ff:ff:ff:ff.
mac_mask == Dst(0, MacBcast)

\* b1b_br_fdb_msg_cb: one row of the dump into the bond's tree.  data is
\* [bs, nodes, addr]: the bond, its tree and the next node address.
b1b_br_fdb_msg_cb(nlmsg, data) ==
    IF nlmsg.type = "NLMSG_DONE" THEN Res(MNL_CB_STOP, data)
    ELSE IF nlmsg.type # "RTM_NEWNEIGH" THEN Res(MNL_CB_OK, data)
    ELSE IF nlmsg.ndm_ifindex = data.bs.ifindex
            \/ BitAnd(nlmsg.ndm_state, NUD_PERMANENT) # 0
    THEN Res(MNL_CB_OK, data)
    ELSE Let(BrFdbAttrParse(nlmsg.attrs, Dst(0, MacZero)),
             LAMBDA r :
                IF r.ret < 0 THEN Res(MNL_CB_ERROR, data)
                ELSE IF BytesAnd(DstBytes(r.data), DstBytes(mac_mask))
                        = <<0, 0, 0, 0, 0, 0, 0, 0>>
                THEN Res(MNL_CB_OK, data)
                ELSE Res(MNL_CB_OK,
                         [data EXCEPT
                             !.nodes = b1b_fdb_add(data.nodes, r.data, data.addr),
                             !.addr = data.addr + 1]))

(***************************************************************************)
(* netlink.c: the request/response helper.                                 *)
(***************************************************************************)
\* b1b_auto_msg_cb that pushes a bond of any mode.
AutoMsgCbAnyMode(nlmsg, list) ==
    Let(b1b_bond_msg_cb(nlmsg, ZeroBs),
        LAMBDA r :
           IF r.ret <= MNL_CB_ERROR THEN Res(r.ret, list)
           ELSE IF CheckBsAnyMode(r.data)
           THEN Res(MNL_CB_OK,
                    Append(list, [r.data EXCEPT
                                     !.fdbtree = [ptr |-> Len(list), nodes |-> <<>>]]))
           ELSE Res(MNL_CB_OK, list))

\* b1b_auto_msg_cb: a candidate session per dumped link, pushed on the list
\* gs->bonds when it is a mode 1 bond with a master.  list holds the cells in
\* the order they were allocated; the list head is the last of them.
b1b_auto_msg_cb(nlmsg, list) ==
    Let(b1b_bond_msg_cb(nlmsg, ZeroBs),
        LAMBDA r :
           IF r.ret <= MNL_CB_ERROR THEN Res(r.ret, list)
           ELSE IF b1b_check_bs(r.data)
           THEN Res(MNL_CB_OK,
                    Append(list, [r.data EXCEPT
                                     !.fdbtree = [ptr |-> Len(list), nodes |-> <<>>]]))
           ELSE Res(MNL_CB_OK, list))

\* The message callback named cb, applied to one data message.
MsgCb(cb, nlmsg, data) ==
    CASE cb = "b1b_bond_msg_cb" -> b1b_bond_msg_cb(nlmsg, data)
      [] cb = "b1b_auto_msg_cb" -> b1b_auto_msg_cb(nlmsg, data)
      [] cb = "b1b_br_msg_cb" -> b1b_br_msg_cb(nlmsg, data)
      [] cb = "b1b_ovs_msg_cb" -> b1b_ovs_msg_cb(nlmsg, data)
      [] cb = "b1b_br_fdb_msg_cb" -> b1b_br_fdb_msg_cb(nlmsg, data)
      [] cb = "msg_cb" -> Res(nlmsg.cbret, Append(data, nlmsg))

\* b1b_nlmsg_req_cb_wrapper that does not look at NLM_F_MULTI.
WrapperIgnoreMulti(cb, nlmsg, data) ==
    Let(MsgCb(cb, nlmsg, data),
        LAMBDA r :
           IF r.ret <= MNL_CB_STOP THEN r
           ELSE IF nlmsg.type = "NLMSG_DONE" THEN Res(MNL_CB_STOP, r.data)
           ELSE Res(MNL_CB_OK, r.data))

\* b1b_nlmsg_req_cb_wrapper: the caller's callback, then the end of the
\* reply: NLMSG_DONE or a message without NLM_F_MULTI.
b1b_nlmsg_req_cb_wrapper(cb, nlmsg, data) ==
    Let(MsgCb(cb, nlmsg, data),
        LAMBDA r :
           IF r.ret <= MNL_CB_STOP THEN r
           ELSE IF nlmsg.type = "NLMSG_DONE" THEN Res(MNL_CB_STOP, r.data)
           ELSE IF nlmsg.multi THEN Res(MNL_CB_OK, r.data)
           ELSE Res(MNL_CB_STOP, r.data))

RECURSIVE b1b_nlmsg_req(_, _, _)
\* b1b_nlmsg_req on the kernel's reply: mnl_cb_run hands data messages to
\* the wrapper and ends on NLMSG_ERROR (error) and NLMSG_DONE (stop) itself.
\* "RECV_FAIL" stands for a failed mnl_socket_recvfrom.
b1b_nlmsg_req(reply, cb, data) ==
    IF reply = <<>> THEN Res(MNL_CB_STOP, data)
    ELSE IF Head(reply).type \in {"NLMSG_ERROR", "RECV_FAIL"}
    THEN Res(MNL_CB_ERROR, data)
    ELSE IF Head(reply).type = "NLMSG_DONE" THEN Res(MNL_CB_STOP, data)
    ELSE Let(b1b_nlmsg_req_cb_wrapper(cb, Head(reply), data),
             LAMBDA r : IF r.ret >= MNL_CB_OK
                        THEN b1b_nlmsg_req(Tail(reply), cb, r.data)
                        ELSE r)

\* b1b_getlink: RTM_GETLINK by name (ifname # NULL) or by index.
b1b_getlink(ls, ifname, ifindex, cb, data) ==
    b1b_nlmsg_req(GetlinkReply(ls, ifname, ifindex), cb, data)

\* b1b_br_get_fdb: the RTM_GETNEIGH dump of the bond's bridge into the tree
\* `nodes`.  A request that ends below zero is B1B_FATAL.
b1b_br_get_fdb(reply, bs, nodes) ==
    Let(b1b_nlmsg_req(reply, "b1b_br_fdb_msg_cb",
                      [bs |-> bs, nodes |-> nodes, addr |-> 1]),
        LAMBDA r : [status |-> IF r.ret < 0 THEN "exit1" ELSE "ok",
                    nodes |-> r.data.nodes])

(***************************************************************************)
(* netlink.c: the multicast event dispatcher.                              *)
(***************************************************************************)
\* b1b_bs_ifindex_cmp.
b1b_bs_ifindex_cmp(bs1, bs2) ==
    IF bs1.ifindex < bs2.ifindex THEN -1
    ELSE IF bs1.ifindex > bs2.ifindex THEN 1
    ELSE 0

RECURSIVE bsearch(_, _, _, _)
\* bsearch(&key, gs->bonds, gs->bcount, sizeof key, b1b_bs_ifindex_cmp) as
\* the C library halves the array [l, u): the position found, 0 for NULL.
bsearch(key, arr, l, u) ==
    IF l >= u THEN 0
    ELSE Let((l + u) \div 2,
             LAMBDA idx :
                Let(b1b_bs_ifindex_cmp(key, arr[idx + 1]),
                    LAMBDA c : IF c < 0 THEN bsearch(key, arr, l, idx)
                               ELSE IF c > 0 THEN bsearch(key, arr, idx + 1, u)
                               ELSE idx + 1))

\* b1b_mc_msg_cb without the test of nlmsg_type.
McMsgCbAnyType(nlmsg, arr) ==
    Let(bsearch([ZeroBs EXCEPT !.ifindex = nlmsg.ifi_index], arr, 0, Len(arr)),
        LAMBDA k :
           IF k = 0 THEN Res(MNL_CB_OK, arr)
           ELSE Let(mnl_attr_parse("b1b_mc_attr_cb", nlmsg.attrs, arr[k]),
                    LAMBDA r :
                       IF r.ret <= MNL_CB_ERROR THEN Res(MNL_CB_ERROR, arr)
                       ELSE Res(MNL_CB_OK, [arr EXCEPT ![k] = r.data])))

\* b1b_mc_msg_cb: one multicast message against the inventory arr.
b1b_mc_msg_cb(nlmsg, arr) ==
    IF nlmsg.type # "RTM_NEWLINK" THEN Res(MNL_CB_OK, arr)
    ELSE Let(bsearch([ZeroBs EXCEPT !.ifindex = nlmsg.ifi_index], arr, 0, Len(arr)),
             LAMBDA k :
                IF k = 0 THEN Res(MNL_CB_OK, arr)
                ELSE Let(mnl_attr_parse("b1b_mc_attr_cb", nlmsg.attrs, arr[k]),
                         LAMBDA r :
                            IF r.ret <= MNL_CB_ERROR THEN Res(MNL_CB_ERROR, arr)
                            ELSE Res(MNL_CB_OK, [arr EXCEPT ![k] = r.data])))

\* mnl_cb_run on one received datagram, which holds one message: control
\* messages end it there, a data message goes to b1b_mc_msg_cb.
mnl_cb_run(nlmsg, arr) ==
    IF nlmsg.type = "NLMSG_ERROR" THEN Res(MNL_CB_ERROR, arr)
    ELSE IF nlmsg.type = "NLMSG_DONE" THEN Res(MNL_CB_STOP, arr)
    ELSE b1b_mc_msg_cb(nlmsg, arr)

\* ClearFlags that clears the flag of the first bond alone.
ClearFlagsFirst(arr) ==
    [k \in 1..Len(arr) |-> IF k = 1 THEN [arr[k] EXCEPT !.failover_event = 0] ELSE arr[k]]

\* ClearFlags that leaves the flags of the previous cycle standing.
ClearFlagsKeep(arr) == arr

\* The first loop of b1b_mcast_process: every bond's flag cleared.
ClearFlags(arr) == [k \in 1..Len(arr) |-> [arr[k] EXCEPT !.failover_event = 0]]

(***************************************************************************)
(* ovs.c: the bridge and port of a bond attached to Open vSwitch.          *)
(***************************************************************************)
\* A line of the dpif/show result: "BR" is "  name:", "PORT" is
\* "    name ofport/dpport: (type)", "NONE" a line with no leading token.
BrLine(name) == [t |-> "BR", name |-> name, ofport |-> 0]
PortLine(name, ofport) == [t |-> "PORT", name |-> name, ofport |-> ofport]
BlankLine == [t |-> "NONE", name |-> "", ofport |-> 0]

\* The first line of the result, "system@ovs-system: hit:.. missed:..".
DpifHeader == [t |-> "HDR", name |-> "system@ovs-system", ofport |-> 0]

\* sscanf(line, " %m[^: ] %u", &ifname, &ofport): the number of conversions.
SscanfDpif(line) ==
    CASE line.t \in {"BR", "HDR"} -> 1
      [] line.t = "PORT" -> 2
      [] OTHER -> 0

RECURSIVE DpifWalk(_, _, _, _)
\* The loop of b1b_get_ovs_info over the lines from the k-th on: the current
\* bridge name, and the port line that ended the walk (0 when none did).
DpifWalk(lines, k, brname, ifname) ==
    IF k > Len(lines) THEN [status |-> "eof", brname |-> brname, ofport |-> 0]
    ELSE Let(SscanfDpif(lines[k]),
             LAMBDA result :
                IF result = 1 THEN DpifWalk(lines, k + 1, lines[k].name, ifname)
                ELSE IF result # 2
                THEN [status |-> "exit1", brname |-> brname, ofport |-> 0]
                ELSE IF lines[k].name = ifname
                THEN [status |-> "found", brname |-> brname,
                      ofport |-> lines[k].ofport]
                ELSE DpifWalk(lines, k + 1, brname, ifname))

Out(status, bs) == [status |-> status, bs |-> bs]

\* b1b_get_ovs_info without the getlink by name: brindex stays what
\* IFLA_MASTER gave.
GetOvsInfoKeepMaster(ls, lines, bs) ==
    Let(DpifWalk(lines, 2, NullStr, bs.ifname),
        LAMBDA w :
           IF w.status = "exit1" THEN Out("exit1", bs)
           ELSE IF w.brname = NullStr \/ w.status = "eof" THEN Out("exit1", bs)
           ELSE Out("ok", [bs EXCEPT !.brname = w.brname, !.ofport = w.ofport,
                                     !.getfdb = "b1b_ovs_get_fdb"]))

\* b1b_get_ovs_info: brname, ofport, getfdb and brindex of a bond whose
\* master is the OVS datapath device.  The first line of the result is
\* skipped unread.  status "exit1" is B1B_FATAL.
b1b_get_ovs_info(ls, lines, bs) ==
    Let(DpifWalk(lines, 2, NullStr, bs.ifname),
        LAMBDA w :
           IF w.status = "exit1" THEN Out("exit1", bs)
           ELSE IF w.brname = NullStr \/ w.status = "eof" THEN Out("exit1", bs)
           ELSE Let(b1b_getlink(ls, w.brname, 0, "b1b_ovs_msg_cb",
                                [bs EXCEPT !.brname = w.brname, !.ofport = w.ofport,
                                           !.getfdb = "b1b_ovs_get_fdb",
                                           !.brindex = 0]),
                    LAMBDA r :
                       IF r.ret <= MNL_CB_ERROR THEN Out("exit1", r.data)
                       ELSE IF r.data.brindex = 0 THEN Out("exit1", r.data)
                       ELSE Out("ok", r.data)))

\* A line of the fdb/show result: "HDR" the column header, "LOCAL" a row
\* whose port column reads LOCAL, "ROW" a row "port vlan mac age", "BAD" a
\* line sscanf cannot convert in full.
FdbLine(t, port, vid, mac) == [t |-> t, port |-> port, vlan |-> vid, mac |-> mac]

\* strncmp(line, "LOCAL", sizeof("LOCAL") - 1) == 0.
HasLocalPrefix(line) == line.t = "LOCAL"

\* The sscanf of b1b_ovs_get_fdb: the number of conversions.
SscanfFdb(line) == IF line.t = "ROW" THEN 8 ELSE 0

RECURSIVE OvsFdbLoopSkipBad(_, _, _, _)
\* The loop of b1b_ovs_get_fdb with a line that does not parse passed over
\* like a LOCAL row.
OvsFdbLoopSkipBad(lines, bs, nodes, addr) ==
    IF lines = <<>> THEN [status |-> "ok", nodes |-> nodes]
    ELSE Let(Head(lines),
             LAMBDA line :
                IF HasLocalPrefix(line) \/ SscanfFdb(line) # 8
                THEN OvsFdbLoopSkipBad(Tail(lines), bs, nodes, addr)
                ELSE IF line.port # bs.ofport
                THEN OvsFdbLoopSkipBad(Tail(lines), bs,
                                       b1b_fdb_add(nodes, Dst(line.vlan, line.mac), addr),
                                       addr + 1)
                ELSE OvsFdbLoopSkipBad(Tail(lines), bs, nodes, addr))

RECURSIVE OvsFdbLoop(_, _, _, _)
\* The loop of b1b_ovs_get_fdb over the lines after the header.
OvsFdbLoop(lines, bs, nodes, addr) ==
    IF lines = <<>> THEN [status |-> "ok", nodes |-> nodes]
    ELSE Let(Head(lines),
             LAMBDA line :
                IF HasLocalPrefix(line) THEN OvsFdbLoop(Tail(lines), bs, nodes, addr)
                ELSE IF SscanfFdb(line) # 8 THEN [status |-> "exit1", nodes |-> nodes]
                ELSE IF line.port # bs.ofport
                THEN OvsFdbLoop(Tail(lines), bs,
                                b1b_fdb_add(nodes, Dst(line.vlan, line.mac), addr),
                                addr + 1)
                ELSE OvsFdbLoop(Tail(lines), bs, nodes, addr))

\* b1b_ovs_get_fdb: the fdb/show result of the bond's bridge into the tree
\* `nodes`.  The first line is skipped unread.
b1b_ovs_get_fdb(lines, bs, nodes) ==
    IF lines = <<>> THEN [status |-> "ok", nodes |-> nodes]
    ELSE OvsFdbLoop(Tail(lines), bs, nodes, 1)

(***************************************************************************)
(* bond.c: the bond inventory.                                             *)
(***************************************************************************)
\* b1b_check_log: a failed check ends the process for a command line bond
\* and is a debug message for an auto-detected one.
b1b_check_log(type) == IF type = "B1B_BS_CHECK_CLI" THEN "exit1" ELSE "ret0"

\* b1b_get_bridge_info that accepts a master of any kind.
GetBridgeInfoAnyMaster(ls, lines, bs, type) ==
    Let(b1b_getlink(ls, NullStr, bs.brindex, "b1b_br_msg_cb", bs),
        LAMBDA r :
           IF r.ret <= MNL_CB_ERROR THEN Out("exit1", r.data)
           ELSE IF r.data.brname = NullStr THEN Out(b1b_check_log(type), r.data)
           ELSE IF r.data.brtype = B1B_BR_TYPE_OVS
           THEN Let(b1b_get_ovs_info(ls, lines, r.data),
                    LAMBDA o : Out(IF o.status = "ok" THEN "ret1" ELSE o.status,
                                   o.bs))
           ELSE Out("ret1", [r.data EXCEPT !.getfdb = "b1b_br_get_fdb"]))

\* b1b_get_bridge_info: status "ret1" / "ret0" is the _Bool returned.
b1b_get_bridge_info(ls, lines, bs, type) ==
    Let(b1b_getlink(ls, NullStr, bs.brindex, "b1b_br_msg_cb", bs),
        LAMBDA r :
           IF r.ret <= MNL_CB_ERROR THEN Out("exit1", r.data)
           ELSE IF r.data.brname = NullStr THEN Out(b1b_check_log(type), r.data)
           ELSE IF r.data.brtype = B1B_BR_TYPE_LINUX
           THEN Out("ret1", [r.data EXCEPT !.getfdb = "b1b_br_get_fdb"])
           ELSE IF r.data.brtype = B1B_BR_TYPE_OVS
           THEN Let(b1b_get_ovs_info(ls, lines, r.data),
                    LAMBDA o : Out(IF o.status = "ok" THEN "ret1" ELSE o.status,
                                   o.bs))
           ELSE Out(b1b_check_log(type), r.data))

\* b1b_get_bond_info that leaves out the final b1b_check_bs.
GetBondInfoUnchecked(ls, name, bs) ==
    Let(b1b_getlink(ls, name, 0, "b1b_bond_msg_cb", [bs EXCEPT !.ifname = name]),
        LAMBDA r :
           IF r.ret = CB_ABORT THEN Out("abort", r.data)
           ELSE IF r.ret <= MNL_CB_ERROR THEN Out("exit1", r.data)
           ELSE IF name # r.data.ifname THEN Out("exit1", r.data)
           ELSE Out("ok", r.data))

\* b1b_get_bond_info: a command line bond by name.
b1b_get_bond_info(ls, name, bs) ==
    Let(b1b_getlink(ls, name, 0, "b1b_bond_msg_cb", [bs EXCEPT !.ifname = name]),
        LAMBDA r :
           IF r.ret = CB_ABORT THEN Out("abort", r.data)
           ELSE IF r.ret <= MNL_CB_ERROR THEN Out("exit1", r.data)
           ELSE IF name # r.data.ifname THEN Out("exit1", r.data)
           ELSE IF ~b1b_check_bs(r.data) THEN Out("exit1", r.data)
           ELSE Out("ok", r.data))

RECURSIVE InsertSorted(_, _)
InsertSorted(sorted, bs) ==
    IF sorted = <<>> THEN <<bs>>
    ELSE IF b1b_bs_ifindex_cmp(bs, Head(sorted)) < 0 THEN <<bs>> \o sorted
    ELSE <<Head(sorted)>> \o InsertSorted(Tail(sorted), bs)

RECURSIVE qsort(_)
\* qsort(gs->bonds, gs->bcount, sizeof *gs->bonds, b1b_bs_ifindex_cmp).
qsort(arr) ==
    IF arr = <<>> THEN <<>>
    ELSE InsertSorted(qsort(SubSeq(arr, 1, Len(arr) - 1)), arr[Len(arr)])

Inv(status, arr) == [status |-> status, bonds |-> arr]

RECURSIVE ParseLoop(_, _, _, _, _)
\* The loop of b1b_parse_bonds over argv[bindex..]: it ends the process at
\* the first argument that fails.
ParseLoop(ls, lines, argv, i, arr) ==
    IF i > Len(argv) THEN Inv("ok", arr)
    ELSE Let(b1b_get_bond_info(ls, argv[i], ZeroBs),
             LAMBDA g :
                IF g.status # "ok" THEN Inv(g.status, Append(arr, g.bs))
                ELSE Let(b1b_get_bridge_info(ls, lines, g.bs, "B1B_BS_CHECK_CLI"),
                         LAMBDA b :
                            IF b.status = "ret1"
                            THEN ParseLoop(ls, lines, argv, i + 1, Append(arr, b.bs))
                            ELSE Inv("exit1", Append(arr, b.bs))))

\* b1b_parse_bonds: the inventory from the command line, sorted by ifindex.
b1b_parse_bonds(ls, lines, argv) ==
    Let(ParseLoop(ls, lines, argv, 1, <<>>),
        LAMBDA r : IF r.status = "ok" THEN Inv("ok", qsort(r.bonds)) ELSE r)

RECURSIVE BridgeLoop(_, _, _, _)
\* The second loop of b1b_detect_bonds, from the list head (the last cell
\* allocated) down the next links: on_bridge is stored in each cell.
BridgeLoop(ls, lines, list, k) ==
    IF k = 0 THEN Inv("ok", list)
    ELSE Let(b1b_get_bridge_info(ls, lines, list[k], "B1B_BS_CHECK_AUTO"),
             LAMBDA b :
                IF b.status \notin {"ret0", "ret1"} THEN Inv(b.status, list)
                ELSE BridgeLoop(ls, lines,
                         [list EXCEPT ![k] =
                             [b.bs EXCEPT !.failover_event =
                                 IF b.status = "ret1" THEN 1 ELSE 0]],
                         list[k].fdbtree.ptr))

RECURSIVE CopyLoop(_, _)
\* The third loop of b1b_detect_bonds: gs->bonds[i++] = *bs for the cells
\* that are on a bridge, in list order.  The whole struct is copied.
CopyLoop(list, k) ==
    IF k = 0 THEN <<>>
    ELSE (IF list[k].failover_event # 0 THEN <<list[k]>> ELSE <<>>)
         \o CopyLoop(list, list[k].fdbtree.ptr)

\* b1b_detect_bonds: the inventory from a dump of all links.
b1b_detect_bonds(ls, lines) ==
    Let(b1b_nlmsg_req(DumpReply(ls), "b1b_auto_msg_cb", <<>>),
        LAMBDA d :
           IF d.ret = CB_ABORT THEN Inv("abort", <<>>)
           ELSE IF d.ret <= MNL_CB_ERROR THEN Inv("exit1", <<>>)
           ELSE Let(BridgeLoop(ls, lines, d.data, Len(d.data)),
                    LAMBDA r :
                       IF r.status # "ok" THEN Inv(r.status, <<>>)
                       ELSE Let(CopyLoop(r.bonds, Len(r.bonds)),
                                LAMBDA arr : IF arr = <<>> THEN Inv("exit1", <<>>)
                                             ELSE Inv("ok", qsort(arr)))))

(***************************************************************************)
(* garp.c: the gratuitous ARP emitter.                                     *)
(***************************************************************************)
ETH_P_8021Q == 33024
ETH_P_ARP == 2054
ETH_P_IP == 2048
ARPHRD_ETHER == 1
ARPOP_REPLY == 2
ETH_ALEN == 6
SizeofInAddr == 4

\* __builtin_bswap16.
bswap16(s) == (s % 256) * 256 + (s \div 256)

\* B1B_HTONS: the identity on a big-endian build, a byte swap on a
\* little-endian one.
B1B_HTONS(s) == IF littleEndian THEN bswap16(s) ELSE s

\* A struct iovec: the buffer iov_base points at, and iov_len.
Iov(base, len) == [iov_base |-> base, iov_len |-> len]

\* The static initializers of b1b_send_garp.
MacsInit == MacBcast \o MacZero

VlanInit == Host16(B1B_HTONS(ETH_P_8021Q)) \o Host16(0)

ArpInit ==
    Host16(B1B_HTONS(ETH_P_ARP)) \o Host16(B1B_HTONS(ARPHRD_ETHER))
    \o Host16(B1B_HTONS(ETH_P_IP)) \o <<ETH_ALEN, SizeofInAddr>>
    \o Host16(B1B_HTONS(ARPOP_REPLY))
    \o MacZero \o <<0, 0, 0, 0>> \o MacZero \o <<0, 0, 0, 0>>

SllInit == [sll_ifindex |-> 0]

IovsInit == <<Iov("macs", Len(MacsInit)), Iov("NULL", 0), Iov("NULL", 0)>>

MsgInit == [msg_iovlen |-> 0]

\* The static buffers as one record.
Statics ==
    [macs |-> macs, vlan |-> vlan, arp |-> arp, sll |-> sll, iovs |-> iovs,
     msg |-> msg]

\* memcpy(buf + off, src, Len(src)), off counted from 0.
Memcpy(buf, off, src) ==
    [k \in 1..Len(buf) |->
        IF k > off /\ k <= off + Len(src) THEN src[k - off] ELSE buf[k]]

\* b1b_send_garp with the slip of its untagged branch made in the tagged
\* branch too: iovs[1].iov_len is not stored.
SendGarpTaggedSlip(st, bs, dst) ==
    LET s1 == [st EXCEPT !.macs = Memcpy(st.macs, ETH_ALEN, dst.mac),
                         !.arp = Memcpy(st.arp, 10, dst.mac),
                         !.sll = [sll_ifindex |-> bs.ifindex]]
    IN IF dst.vlan # 0
       THEN [s1 EXCEPT !.vlan = Memcpy(s1.vlan, 2, Host16(dst.vlan)),
                       !.iovs = [s1.iovs EXCEPT ![2].iov_base = "vlan",
                                                ![3] = Iov("arp", Len(s1.arp))],
                       !.msg = [msg_iovlen |-> 3]]
       ELSE [s1 EXCEPT !.iovs = [s1.iovs EXCEPT ![2].iov_base = "arp",
                                                ![3].iov_len = Len(s1.arp)],
                       !.msg = [msg_iovlen |-> 2]]

\* b1b_send_garp with sll.sll_ifindex stored by the first call alone: the
\* static socket address keeps the bond of the first frame.
SendGarpSllOnce(st, bs, dst) ==
    LET s1 == [st EXCEPT !.macs = Memcpy(st.macs, ETH_ALEN, dst.mac),
                         !.arp = Memcpy(st.arp, 10, dst.mac),
                         !.sll = IF st.sll.sll_ifindex = 0
                                 THEN [sll_ifindex |-> bs.ifindex] ELSE st.sll]
    IN IF dst.vlan # 0
       THEN [s1 EXCEPT !.vlan = Memcpy(s1.vlan, 2, Host16(dst.vlan)),
                       !.iovs = [s1.iovs EXCEPT ![2] = Iov("vlan", Len(s1.vlan)),
                                                ![3] = Iov("arp", Len(s1.arp))],
                       !.msg = [msg_iovlen |-> 3]]
       ELSE [s1 EXCEPT !.iovs = [s1.iovs EXCEPT ![2].iov_base = "arp",
                                                ![3].iov_len = Len(s1.arp)],
                       !.msg = [msg_iovlen |-> 2]]

\* b1b_send_garp up to the sendmsg call: the static buffers as it leaves
\* them.  The untagged branch stores iovs[1].iov_base, iovs[2].iov_len and
\* msg_iovlen, and nothing else.
b1b_send_garp(st, bs, dst) ==
    LET s1 == [st EXCEPT !.macs = Memcpy(st.macs, ETH_ALEN, dst.mac),
                         !.arp = Memcpy(st.arp, 10, dst.mac),
                         !.sll = [sll_ifindex |-> bs.ifindex]]
    IN IF dst.vlan # 0
       THEN [s1 EXCEPT !.vlan = Memcpy(s1.vlan, 2, Host16(dst.vlan)),
                       !.iovs = [s1.iovs EXCEPT ![2] = Iov("vlan", Len(s1.vlan)),
                                                ![3] = Iov("arp", Len(s1.arp))],
                       !.msg = [msg_iovlen |-> 3]]
       ELSE [s1 EXCEPT !.iovs = [s1.iovs EXCEPT ![2].iov_base = "arp",
                                                ![3].iov_len = Len(s1.arp)],
                       !.msg = [msg_iovlen |-> 2]]

\* The bytes of the buffer an iovec points at.
IovBytes(st, iov) ==
    CASE iov.iov_base = "macs" -> SubSeq(st.macs, 1, iov.iov_len)
      [] iov.iov_base = "vlan" -> SubSeq(st.vlan, 1, iov.iov_len)
      [] iov.iov_base = "arp" -> SubSeq(st.arp, 1, iov.iov_len)
      [] OTHER -> <<>>

RECURSIVE Gather(_, _)
\* sendmsg: the frame gathered from the first k entries of msg_iov.
Gather(st, k) ==
    IF k = 0 THEN <<>> ELSE Gather(st, k - 1) \o IovBytes(st, st.iovs[k])

\* The frame b1b_send_garp hands to sendmsg for dst, with what it was for.
Frame(st, bs, dst) ==
    [ifindex |-> st.sll.sll_ifindex, dst |-> dst,
     bytes |-> Gather(st, st.msg.msg_iovlen)]

RECURSIVE SendLoopStopAtError(_, _, _, _, _)
\* The loop of b1b_send_garps left at the first sendmsg that fails.
SendLoopStopAtError(st, bs, nodes, k, frames) ==
    IF k > Len(nodes) THEN [st |-> st, frames |-> frames]
    ELSE Let(b1b_send_garp(st, bs, nodes[k].dst),
             LAMBDA s1 :
                IF Len(sent) + k \in failing
                THEN [st |-> s1, frames |-> Append(frames, Frame(s1, bs, nodes[k].dst))]
                ELSE SendLoopStopAtError(s1, bs, nodes, k + 1,
                                         Append(frames, Frame(s1, bs, nodes[k].dst))))

RECURSIVE SendLoop(_, _, _, _, _)
\* The loop of b1b_send_garps from the k-th node of the tree in key order:
\* the static buffers after the last frame, and the frames in order.
SendLoop(st, bs, nodes, k, frames) ==
    IF k > Len(nodes) THEN [st |-> st, frames |-> frames]
    ELSE Let(b1b_send_garp(st, bs, nodes[k].dst),
             LAMBDA s1 : SendLoop(s1, bs, nodes, k + 1,
                                  Append(frames, Frame(s1, bs, nodes[k].dst))))

\* bs->getfdb(gs, bs) on the reply, into the tree t.
GetFdb(bs, reply, t) ==
    IF bs.getfdb = "b1b_br_get_fdb" THEN b1b_br_get_fdb(reply, bs, t)
    ELSE b1b_ovs_get_fdb(reply, bs, t)

(***************************************************************************)
(* Inputs of the inventory.                                                *)
(***************************************************************************)
IfNames == <<"bond1", "bond2", "bond3", "bond4">>

\* What a candidate link may be: <<kind, mode, master>>.
LinkShapes ==
    { <<"bond", 1, 10>>, <<"bond", 1, 11>>, <<"bond", 1, 13>>, <<"bond", 1, 14>>,
      <<"bond", 1, 0>>, <<"bond", 0, 10>>, <<"bond", -1, 10>>,
      <<"dummy", -1, 10>>, <<"none", -1, 10>> }

\* The kernel's candidate links: ifindex 1..MaxLinks, in dump order.
LinkTables ==
    { [k \in 1..MaxLinks |-> Link(k, IfNames[k], sh[k][1], sh[k][2], sh[k][3])] :
        sh \in [1..MaxLinks -> LinkShapes] }

ArgNames == { IfNames[k] : k \in 1..MaxLinks } \cup {"nosuch", "uplink"}

\* The positional arguments: none (auto-detect) or up to MaxArgs names.
ArgLists == {<<>>} \cup UNION { [1..n -> ArgNames] : n \in 1..MaxArgs }

\* dpif/show results the inventory runs against.
InvListings ==
    { <<DpifHeader, BrLine("br-int"), PortLine("bond1", 5), PortLine("bond2", 6),
        PortLine("br-int", 65534)>>,
      <<DpifHeader, BrLine("br-ex"), PortLine("bond2", 7), BrLine("br-int")>> }

\* The lines a dpif/show result is made of.
DpifLines ==
    { BrLine("br-int"), BrLine("br-ex"), BrLine("br-gone"),
      PortLine("bond1", 5), PortLine("bond1", 9), PortLine("bond2", 6),
      BlankLine }

\* dpif/show results: the header followed by up to MaxLines lines.
DpifListings ==
    { <<DpifHeader>> \o l : l \in UNION { [1..n -> DpifLines] : n \in 0..MaxLines } }

\* A link table whose first bond is an OVS port.
OvsLinks ==
    [k \in 1..MaxLinks |-> Link(k, IfNames[k], "bond", 1, DatapathIndex)]

(***************************************************************************)
(* Actions of the inventory.                                               *)
(***************************************************************************)
reqVars == <<seq, nlhdr, reqs, reqin, reqout>>

rpcVars == <<reqid, rpcs>>

envVars ==
    <<littleEndian, args, links, listing, failing, cmdline, b1b_debug, b1b_use_syslog,
      reqVars, rpcVars>>

fdbVars == <<bi, fdbreply, added>>

garpVars == <<macs, vlan, arp, sll, iovs, msg>>

loopVars == <<queue, parse_error, drained, calls, narrived>>

sigVars == <<sigmask, ppmask, sigpending, sigact, b1b_exit_flag, sigsent>>

logVars == <<errlog, released>>

vars == <<pc, bonds, envVars, sigVars, logVars, socks, fdbVars, garpVars, sent, loopVars>>

\* b1b_parse_args has run on a command line without options, stderr a
\* terminal: the arguments are the bond names.
ArgsParsed == cmdline = args /\ b1b_debug = FALSE /\ b1b_use_syslog = FALSE

\* No request has been made through the transport under study.
ReqIdle ==
    /\ seq = <<0, 0>>
    /\ nlhdr = [nlmsg_flags |-> {}, nlmsg_seq |-> <<0, 0>>]
    /\ reqs = <<>>
    /\ reqin = <<>>
    /\ reqout = [ret |-> MNL_CB_OK, used |-> 0, handed |-> <<>>]
    /\ reqid = 0
    /\ rpcs = <<>>

\* No reader has run and no destination has been added.
FdbIdle == bi = 0 /\ fdbreply = <<>> /\ added = <<>>

\* The static buffers of b1b_send_garp as the program image holds them.
GarpIdle ==
    /\ macs = MacsInit
    /\ vlan = VlanInit
    /\ arp = ArpInit
    /\ sll = SllInit
    /\ iovs = IovsInit
    /\ msg = MsgInit
    /\ sent = <<>>

\* Nothing has arrived on the multicast socket.
LoopIdle ==
    /\ queue = <<>>
    /\ parse_error = FALSE
    /\ drained = <<>>
    /\ calls = <<>>
    /\ narrived = 0
    /\ errlog = <<>>
    /\ released = <<>>

\* The signals main handles.
Signals == {"SIGTERM", "SIGINT"}

\* main has opened its three sockets (main.c:301-303); no signal has been
\* sent, none is blocked, and both have their default disposition.
SigIdle ==
    /\ socks = {"nlsock", "mcsock", "arpsock"}
    /\ sigmask = {}
    /\ ppmask = <<>>
    /\ sigpending = {}
    /\ sigact = [s \in Signals |-> "SIG_DFL"]
    /\ b1b_exit_flag = 0
    /\ sigsent = <<>>
    /\ failing = {}

\* b1b_ovs_rpc_send connects the OVS socket on first use: it is open once
\* b1b_get_ovs_info has run for a bond.
OvsSock(arr) ==
    IF \E k \in 1..Len(arr) : arr[k].brtype = B1B_BR_TYPE_OVS
    THEN {"ovssock"} ELSE {}

\* main: positional arguments given, b1b_parse_bonds.
ParseBonds ==
    /\ pc = "setup"
    /\ args # <<>>
    /\ \E r \in {b1b_parse_bonds(links, listing, args)} :
          /\ bonds' = r.bonds
          /\ socks' = socks \cup OvsSock(r.bonds)
          /\ pc' = IF r.status = "ok" THEN "ready" ELSE r.status
    /\ UNCHANGED <<envVars, sigVars, logVars, fdbVars, garpVars, sent, loopVars>>

\* main: no positional argument, b1b_detect_bonds.
DetectBonds ==
    /\ pc = "setup"
    /\ args = <<>>
    /\ \E r \in {b1b_detect_bonds(links, listing)} :
          /\ bonds' = r.bonds
          /\ socks' = socks \cup OvsSock(r.bonds)
          /\ pc' = IF r.status = "ok" THEN "ready" ELSE r.status
    /\ UNCHANGED <<envVars, sigVars, logVars, fdbVars, garpVars, sent, loopVars>>

InitInv ==
    /\ pc = "setup"
    /\ littleEndian \in BOOLEAN
    /\ args \in ArgLists
    /\ links \in LinkTables
    /\ listing \in InvListings
    /\ bonds = <<>>
    /\ ArgsParsed /\ ReqIdle /\ FdbIdle /\ GarpIdle /\ LoopIdle /\ SigIdle

NextInv == ParseBonds \/ DetectBonds

SpecInv == InitInv /\ [][NextInv]_vars

\* The command line names bond1, an OVS port, under every dpif/show listing:
\* b1b_parse_bonds runs b1b_get_ovs_info on it.
InitOvs ==
    /\ pc = "setup"
    /\ littleEndian \in BOOLEAN
    /\ args = <<"bond1">>
    /\ links = OvsLinks
    /\ listing \in DpifListings
    /\ bonds = <<>>
    /\ ArgsParsed /\ ReqIdle /\ FdbIdle /\ GarpIdle /\ LoopIdle /\ SigIdle

NextOvs == ParseBonds

SpecOvs == InitOvs /\ [][NextOvs]_vars

(***************************************************************************)
(* Properties of the inventory.                                            *)
(***************************************************************************)
\* C9: whenever b1b_parse_bonds or b1b_detect_bonds returns, the inventory
\* is strictly increasing in ifindex: no two entries share an ifindex.
C9_InventoryStrictlyIncreasing ==
    pc = "ready" =>
        \A i \in 1..(Len(bonds) - 1) : bonds[i].ifindex < bonds[i + 1].ifindex

\* The kernel's ifindex of the link named name, 0 when there is none.
KernelIndex(ls, name) ==
    LET hit == { l \in SeqToSet(AllLinks(ls)) : l.ifname = name }
    IN IF hit = {} THEN 0 ELSE (CHOOSE l \in hit : TRUE).ifindex

\* The port lines of the listing that name the bond, and the bridge header
\* lines before the k-th line.
PortLinesOf(lines, ifname) ==
    { k \in 2..Len(lines) : lines[k].t = "PORT" /\ lines[k].name = ifname }

BridgeLinesBefore(lines, k) == { h \in 2..(k - 1) : lines[h].t = "BR" }

SetMin(S) == CHOOSE x \in S : \A y \in S : x <= y

SetMax(S) == CHOOSE x \in S : \A y \in S : x >= y

\* C10: when b1b_get_ovs_info returns for a bond, brname is the name on the
\* last bridge header line before the first port line naming the bond,
\* ofport is the number on that port line, getfdb is the OVS reader and
\* brindex is the nonzero kernel ifindex of the link named brname, not the
\* datapath device's index that IFLA_MASTER gave.
C10_OvsBridgeResolution ==
    pc = "ready" =>
        LET b == bonds[1]
            P == PortLinesOf(listing, b.ifname)
        IN /\ P # {}
           /\ BridgeLinesBefore(listing, SetMin(P)) # {}
           /\ b.brname = listing[SetMax(BridgeLinesBefore(listing, SetMin(P)))].name
           /\ b.ofport = listing[SetMin(P)].ofport
           /\ b.getfdb = "b1b_ovs_get_fdb"
           /\ b.brindex # 0
           /\ b.brindex = KernelIndex(links, b.brname)
           /\ b.brindex # DatapathIndex

\* C10 witness: two bridge headers precede the bond's port line.
C10_Witness ==
    /\ pc = "ready"
    /\ listing = <<DpifHeader, BrLine("br-ex"), BrLine("br-int"),
                   PortLine("bond1", 9)>>
    /\ bonds[1].brname = "br-int"
    /\ bonds[1].ofport = 9
    /\ bonds[1].brindex = KernelIndex(links, "br-int")


(***************************************************************************)
(* The links and listing the readers, the emitter and the loop run on.     *)
(***************************************************************************)
\* Two mode 1 bonds, one on the native bridge br0 and one an OVS port.
LoopLinks ==
    { <<Link(1, "bond1", "bond", 1, BridgeLinks[1].ifindex),
        Link(2, "bond2", "bond", 1, DatapathIndex)>>,
      <<Link(1, "bond1", "bond", 1, DatapathIndex),
        Link(2, "bond2", "bond", 1, BridgeLinks[1].ifindex)>> }

LoopListing ==
    <<DpifHeader, BrLine("br-int"), PortLine("bond1", 5), PortLine("bond2", 6)>>

\* Auto-detection, both bonds named, one bond named twice.
LoopArgs == { <<>>, <<"bond2", "bond1">>, <<"bond1", "bond1">> }

(***************************************************************************)
(* The emitter on its own: b1b_send_garp for every bond and destination.   *)
(***************************************************************************)
GarpVlans == {0, 10, 258}

GarpDsts == { Dst(v, m) : v \in GarpVlans, m \in {Mac1, Mac2} }

\* b1b_send_garp(gs, bonds[i], dst), the frame recorded as sendmsg gets it.
SendGarp ==
    /\ pc = "ready"
    /\ Len(sent) < MaxFrames
    /\ \E i \in 1..Len(bonds), dst \in GarpDsts :
       \E st \in {b1b_send_garp(Statics, bonds[i], dst)} :
          /\ macs' = st.macs
          /\ vlan' = st.vlan
          /\ arp' = st.arp
          /\ sll' = st.sll
          /\ iovs' = st.iovs
          /\ msg' = st.msg
          /\ sent' = Append(sent, Frame(st, bonds[i], dst))
    /\ UNCHANGED <<pc, bonds, envVars, sigVars, logVars, socks, fdbVars, loopVars>>

InitGarp ==
    /\ pc = "setup"
    /\ littleEndian \in BOOLEAN
    /\ args = <<"bond2", "bond1">>
    /\ links \in LoopLinks
    /\ listing = LoopListing
    /\ bonds = <<>>
    /\ ArgsParsed /\ ReqIdle /\ FdbIdle /\ GarpIdle /\ LoopIdle /\ SigIdle

NextGarp == ParseBonds \/ SendGarp

SpecGarp == InitGarp /\ [][NextGarp]_vars

(***************************************************************************)
(* Properties of the emitter.                                              *)
(***************************************************************************)
\* C2: every frame for a destination with vlan = 0, whatever frames went
\* before it, is 42 bytes long and its bytes 12-13 are 0x0806.
C2_UntaggedFrameShape ==
    \A k \in 1..Len(sent) :
        sent[k].dst.vlan = 0 =>
            /\ Len(sent[k].bytes) = 42
            /\ SubSeq(sent[k].bytes, 13, 14) = <<8, 6>>

\* C3: every frame for a destination with vlan # 0, whatever frames went
\* before it, is 46 bytes long: the 12 bytes of the MAC segment, the 4 byte
\* tag that starts 0x8100, the 30 byte ARP segment that starts 0x0806.
C3_TaggedFrameShape ==
    \A k \in 1..Len(sent) :
        sent[k].dst.vlan # 0 =>
            /\ Len(sent[k].bytes) = 46
            /\ SubSeq(sent[k].bytes, 13, 14) = <<129, 0>>
            /\ SubSeq(sent[k].bytes, 17, 18) = <<8, 6>>

\* C3 witness: a tagged frame sent after an untagged and a tagged one.
C3_Witness ==
    /\ Len(sent) = 3
    /\ sent[1].dst.vlan = 0
    /\ sent[2].dst.vlan # 0
    /\ sent[3].dst.vlan # 0
    /\ sent[3].dst.vlan # sent[2].dst.vlan
    /\ Len(sent[3].bytes) = 46

\* C4: bytes 14-15 of every frame for a destination with vlan # 0 are the
\* VLAN ID in network byte order: byte 14 = vlan / 256, byte 15 = vlan % 256.
C4_VlanIdBigEndian ==
    \A k \in 1..Len(sent) :
        sent[k].dst.vlan # 0 =>
            /\ Len(sent[k].bytes) >= 16
            /\ sent[k].bytes[15] = sent[k].dst.vlan \div 256
            /\ sent[k].bytes[16] = sent[k].dst.vlan % 256

\* The 30 bytes of the ARP segment of a frame: after the MAC segment, and
\* after the tag when the destination has one.
ArpSegment(f) ==
    LET off == IF f.dst.vlan # 0 THEN 16 ELSE 12
    IN SubSeq(f.bytes, off + 1, off + 30)

\* C5: in every frame for a destination D, whatever frames went before it,
\* the Ethernet destination is ff:ff:ff:ff:ff:ff, the Ethernet source and
\* the ARP sha are D.mac, spa, tha and tpa are zero and the operation is
\* REPLY (2) in network byte order.
C5_ArpPayloadAndAddresses ==
    \A k \in 1..Len(sent) :
        /\ Len(sent[k].bytes) >= 12
        /\ SubSeq(sent[k].bytes, 1, 6) = MacBcast
        /\ SubSeq(sent[k].bytes, 7, 12) = sent[k].dst.mac
        /\ Len(sent[k].bytes) = (IF sent[k].dst.vlan # 0 THEN 46 ELSE 42)
        /\ SubSeq(ArpSegment(sent[k]), 9, 10) = <<0, 2>>
        /\ SubSeq(ArpSegment(sent[k]), 11, 16) = sent[k].dst.mac
        /\ SubSeq(ArpSegment(sent[k]), 17, 20) = <<0, 0, 0, 0>>
        /\ SubSeq(ArpSegment(sent[k]), 21, 26) = MacZero
        /\ SubSeq(ArpSegment(sent[k]), 27, 30) = <<0, 0, 0, 0>>

(***************************************************************************)
(* The FDB set on its own: b1b_fdb_add and b1b_fdb_free on one bond.       *)
(***************************************************************************)
TreeDsts == { Dst(v, m) : v \in {0, 1}, m \in {MacZero, Mac1, Mac2} }

\* b1b_fdb_add(bonds[0], dst); the node's address is the call's number.
FdbAdd ==
    /\ pc = "ready"
    /\ Len(added) < MaxAdds
    /\ \E dst \in TreeDsts :
          /\ bonds' = [bonds EXCEPT ![1].fdbtree.nodes =
                          b1b_fdb_add(@, dst, Len(added) + 1)]
          /\ added' = Append(added, dst)
    /\ UNCHANGED <<pc, envVars, sigVars, logVars, socks, bi, fdbreply, garpVars, sent, loopVars>>

\* b1b_fdb_free(bonds[0]).
FdbFree ==
    /\ pc = "ready"
    /\ added # <<>>
    /\ bonds' = [bonds EXCEPT ![1] = b1b_fdb_free(@)]
    /\ added' = <<>>
    /\ UNCHANGED <<pc, envVars, sigVars, logVars, socks, bi, fdbreply, garpVars, sent, loopVars>>

InitTree ==
    /\ pc = "setup"
    /\ littleEndian \in BOOLEAN
    /\ args = <<"bond1">>
    /\ links \in LoopLinks
    /\ listing = LoopListing
    /\ bonds = <<>>
    /\ ArgsParsed /\ ReqIdle /\ FdbIdle /\ GarpIdle /\ LoopIdle /\ SigIdle

NextTree == ParseBonds \/ FdbAdd \/ FdbFree

SpecTree == InitTree /\ [][NextTree]_vars

\* C8: after any sequence of b1b_fdb_add calls on a set that started empty,
\* the set has as many nodes as distinct 8 byte keys were added, and the
\* node of each key is the one its first add allocated: a later add of the
\* same key is dropped and leaves the set as it was.
C8_FdbUniqueness ==
    pc = "ready" =>
        LET nodes == bonds[1].fdbtree.nodes
        IN /\ Len(nodes) =
                 Cardinality({ DstBytes(added[k]) : k \in 1..Len(added) })
           /\ \A n \in 1..Len(nodes) :
                 /\ nodes[n].addr \in 1..Len(added)
                 /\ added[nodes[n].addr] = nodes[n].dst
                 /\ \A j \in 1..(nodes[n].addr - 1) :
                       DstBytes(added[j]) # DstBytes(nodes[n].dst)

\* C8 witness: a key added, another added, the first added again.
C8_Witness ==
    /\ pc = "ready"
    /\ Len(added) = 3
    /\ added[1] = added[3]
    /\ added[2] # added[1]
    /\ Len(bonds[1].fdbtree.nodes) = 2

(***************************************************************************)
(* The FDB readers on the bonds of an inventory.                           *)
(***************************************************************************)
\* The rows of an RTM_GETNEIGH dump: learned on another port (7) and
\* reachable (2), with and without NDA_VLAN; learned on either bond;
\* permanent and reachable (130); with an all-zero address, with none, with
\* the broadcast address; and a message of another type.
NeighShapes ==
    { NeighMsg(7, 2, Mac1, -1), NeighMsg(7, 2, Mac1, 10), NeighMsg(7, 2, Mac2, 10),
      NeighMsg(1, 2, Mac1, -1), NeighMsg(2, 2, Mac2, 10),
      NeighMsg(7, 130, Mac1, -1),
      NeighMsg(7, 2, MacZero, 10), NeighMsg(7, 2, <<>>, -1),
      NeighMsg(7, 2, MacBcast, -1),
      [NeighMsg(7, 2, Mac2, -1) EXCEPT !.type = "RTM_DELNEIGH"] }

\* The replies to the dump: up to MaxRows rows, then NLMSG_DONE, or
\* NLMSG_ERROR in its place.
BrFdbReplies ==
    { rows \o <<end>> :
        rows \in UNION { [1..n -> NeighShapes] : n \in 0..MaxRows },
        end \in {DoneMsg, ErrorMsg} }

FdbHeader == FdbLine("HDR", 0, 0, MacZero)

\* The lines of an fdb/show result after its header: rows learned on the
\* port of either bond (5, 6) or on another port (9), a row with the
\* all-zero address, a LOCAL row and a line that does not parse.
FdbShapes ==
    { FdbLine("ROW", 5, 0, Mac1), FdbLine("ROW", 6, 0, Mac1),
      FdbLine("ROW", 9, 0, Mac1), FdbLine("ROW", 9, 20, Mac1),
      FdbLine("ROW", 9, 20, Mac2), FdbLine("ROW", 9, 20, MacZero),
      FdbLine("LOCAL", 0, 0, Mac2), FdbLine("BAD", 0, 0, MacZero) }

FdbListings ==
    { <<FdbHeader>> \o rows : rows \in UNION { [1..n -> FdbShapes] : n \in 0..MaxRows } }

\* What the bytes of a freed list cell may read as when taken for a tree node.
GarbageDsts == { Dst(0, MacZero), Dst(1, Mac2) }

\* What a walk from a freed list cell taken for the root may visit: one
\* node, or two in an order that no comparison ever established.
GarbageTrees ==
    { <<DstNode(g, 0)>> : g \in GarbageDsts } \cup
    { <<DstNode(Dst(1, Mac2), 0), DstNode(Dst(0, MacZero), 0)>> }

\* The trees a reader may find under root: the tree itself when the root is
\* NULL or points at the tree's nodes; when the root still holds the next
\* link of the auto-detect list, the freed cells read as nodes.
RootTrees(root) ==
    IF root.ptr = 0 THEN {root.nodes} ELSE GarbageTrees

\* bs->getfdb(gs, bs) for a bond on a native bridge.
BrGetFdb ==
    /\ pc = "ready"
    /\ \E i \in 1..Len(bonds), reply \in BrFdbReplies :
       \E t \in RootTrees(bonds[i].fdbtree) :
          /\ bonds[i].getfdb = "b1b_br_get_fdb"
          /\ \E r \in {b1b_br_get_fdb(reply, bonds[i], t)} :
                /\ bonds' = [bonds EXCEPT ![i].fdbtree = [ptr |-> 0, nodes |-> r.nodes]]
                /\ pc' = IF r.status = "ok" THEN "fdb_read" ELSE r.status
          /\ bi' = i
          /\ fdbreply' = reply
    /\ UNCHANGED <<envVars, sigVars, logVars, socks, added, garpVars, sent, loopVars>>

\* bs->getfdb(gs, bs) for a bond that is an OVS port.
OvsGetFdb ==
    /\ pc = "ready"
    /\ \E i \in 1..Len(bonds), lines \in FdbListings :
       \E t \in RootTrees(bonds[i].fdbtree) :
          /\ bonds[i].getfdb = "b1b_ovs_get_fdb"
          /\ \E r \in {b1b_ovs_get_fdb(lines, bonds[i], t)} :
                /\ bonds' = [bonds EXCEPT ![i].fdbtree = [ptr |-> 0, nodes |-> r.nodes]]
                /\ pc' = IF r.status = "ok" THEN "fdb_read" ELSE r.status
          /\ bi' = i
          /\ fdbreply' = lines
    /\ UNCHANGED <<envVars, sigVars, logVars, socks, added, garpVars, sent, loopVars>>

\* A reader that follows a root left over from the auto-detect list may as
\* well end the process.
StaleRootCrash ==
    /\ pc = "ready"
    /\ \E i \in 1..Len(bonds) :
          /\ bonds[i].fdbtree.ptr # 0
          /\ bi' = i
    /\ pc' = "crash"
    /\ UNCHANGED <<bonds, envVars, sigVars, logVars, socks, fdbreply, added, garpVars, sent, loopVars>>

\* b1b_fdb_free(bs) after the read.
FdbRelease ==
    /\ pc = "fdb_read"
    /\ bonds' = [bonds EXCEPT ![bi] = b1b_fdb_free(@)]
    /\ pc' = "ready"
    /\ bi' = 0
    /\ fdbreply' = <<>>
    /\ UNCHANGED <<envVars, sigVars, logVars, socks, added, garpVars, sent, loopVars>>

InitFdb ==
    /\ pc = "setup"
    /\ littleEndian \in BOOLEAN
    /\ args \in LoopArgs
    /\ links \in LoopLinks
    /\ listing = LoopListing
    /\ bonds = <<>>
    /\ ArgsParsed /\ ReqIdle /\ FdbIdle /\ GarpIdle /\ LoopIdle /\ SigIdle

NextFdb == ParseBonds \/ DetectBonds \/ BrGetFdb \/ OvsGetFdb \/ StaleRootCrash \/ FdbRelease

SpecFdb == InitFdb /\ [][NextFdb]_vars

(***************************************************************************)
(* Properties of the FDB readers.                                          *)
(***************************************************************************)
\* The destinations in the set of the bond under service.
FdbOf(b) == { b.fdbtree.nodes[n].dst : n \in 1..Len(b.fdbtree.nodes) }

\* What a dump row carries: its NDA_LLADDR (all-zero when it has none) and
\* its NDA_VLAN (0 when it has none).
RowAttr(m, t) == { m.attrs[k] : k \in { j \in 1..Len(m.attrs) : m.attrs[j].t = t } }

RowMac(m) ==
    IF RowAttr(m, "NDA_LLADDR") = {} THEN MacZero
    ELSE (CHOOSE a \in RowAttr(m, "NDA_LLADDR") : TRUE).sub

RowVlan(m) ==
    IF RowAttr(m, "NDA_VLAN") = {} THEN 0
    ELSE (CHOOSE a \in RowAttr(m, "NDA_VLAN") : TRUE).n

\* C6: after b1b_br_get_fdb on a bond, a (vlan, mac) pair is in the bond's
\* set if and only if an RTM_NEWNEIGH row of the reply carried it with
\* ndm_ifindex other than the bond's, NUD_PERMANENT clear and a link-layer
\* address that is present and not all-zero.
C6_NativeFdbFiltering ==
    (pc = "fdb_read" /\ bonds[bi].getfdb = "b1b_br_get_fdb") =>
        FdbOf(bonds[bi]) =
            { Dst(RowVlan(fdbreply[k]), RowMac(fdbreply[k])) :
                k \in { j \in 1..Len(fdbreply) :
                          /\ fdbreply[j].type = "RTM_NEWNEIGH"
                          /\ fdbreply[j].ndm_ifindex # bonds[bi].ifindex
                          /\ (fdbreply[j].ndm_state \div NUD_PERMANENT) % 2 = 0
                          /\ RowMac(fdbreply[j]) # MacZero } }

\* C7: after b1b_ovs_get_fdb on a bond, the bond's set holds exactly the
\* (vlan, mac) pairs of the fdb/show rows after the header that do not start
\* with LOCAL and whose port is not the bond's OpenFlow port.
C7_OvsFdbFiltering ==
    (pc = "fdb_read" /\ bonds[bi].getfdb = "b1b_ovs_get_fdb") =>
        FdbOf(bonds[bi]) =
            { Dst(fdbreply[k].vlan, fdbreply[k].mac) :
                k \in { j \in 2..Len(fdbreply) :
                          /\ fdbreply[j].t # "LOCAL"
                          /\ fdbreply[j].port # bonds[bi].ofport } }

(***************************************************************************)
(* The event loop: main after setup, b1b_mcast_process, b1b_send_garps.    *)
(***************************************************************************)
\* An RTM_NEWLINK notification for link l that carries IFLA_EVENT = ev.
EventMsg(l, ev) ==
    [NewlinkMsg(l, FALSE) EXCEPT !.attrs = @ \o <<Attr("IFLA_EVENT", "", ev, <<>>)>>]

\* What the kernel may send to the RTNLGRP_LINK group: a failover of either
\* bond, another event of a bond, a failover notification of a link that is
\* no inventory bond, the removal of a bond, and a message mnl_cb_run
\* rejects.
McShapes ==
    { EventMsg(links[1], IFLA_EVENT_BONDING_FAILOVER),
      EventMsg(links[2], IFLA_EVENT_BONDING_FAILOVER),
      EventMsg(links[1], IFLA_EVENT_BONDING_FAILOVER + 1),
      EventMsg(BridgeLinks[1], IFLA_EVENT_BONDING_FAILOVER),
      [EventMsg(links[1], IFLA_EVENT_BONDING_FAILOVER) EXCEPT !.type = "RTM_DELLINK"],
      ErrorMsg }

\* The FDB dumps a burst may get.
LoopBrReplies ==
    { <<DoneMsg>>,
      <<NeighMsg(7, 2, Mac1, -1), NeighMsg(7, 2, Mac2, 10), DoneMsg>>,
      <<NeighMsg(7, 2, Mac1, -1), ErrorMsg>> }

LoopFdbListings ==
    { <<FdbHeader>>,
      <<FdbHeader, FdbLine("LOCAL", 0, 0, Mac2), FdbLine("ROW", 5, 0, Mac1),
        FdbLine("ROW", 6, 0, Mac1), FdbLine("ROW", 9, 20, Mac2)>>,
      <<FdbHeader, FdbLine("ROW", 9, 20, Mac2), FdbLine("BAD", 0, 0, MacZero)>> }

LoopReplies(bs) ==
    IF bs.getfdb = "b1b_br_get_fdb" THEN LoopBrReplies ELSE LoopFdbListings

\* The record of a call in the current poll cycle.
Call(fn, bs) == [fn |-> fn, ifindex |-> bs.ifindex]

\* The B1B_ERR messages.
ErrParse == "Failed to parse netlink message(s)"
ErrSend == "Failed to send gratuitous ARP"
ErrReq == "Error parsing netlink message"
ErrClose(s) ==
    CASE s = "ovssock" -> "Failed to close UNIX socket"
      [] s = "arpsock" -> "Failed to close ARP socket"
      [] s = "nlsock" -> "Failed to close netlink request socket"
      [] s = "mcsock" -> "Failed to close netlink multicast socket"

\* b1b_send_garp logs each sendmsg that fails: the messages of a burst of n
\* frames that follows `from` frames of the same cycle.
SendErrs(from, n) ==
    [j \in 1..Cardinality({ k \in (from + 1)..(from + n) : k \in failing }) |-> ErrSend]

\* b1b_nlmsg_req logs the failure it returns; the OVS reader has no B1B_ERR.
ReqErrs(bs) == IF bs.getfdb = "b1b_br_get_fdb" THEN <<ErrReq>> ELSE <<>>

\* The static buffers of b1b_send_garp become st.
SetStatics(st) ==
    /\ macs' = st.macs
    /\ vlan' = st.vlan
    /\ arp' = st.arp
    /\ sll' = st.sll
    /\ iovs' = st.iovs
    /\ msg' = st.msg

\* The process has not ended.
Alive == pc \notin {"exit0", "exit1", "abort", "crash", "killed"}

\* The signals blocked where the process is: ppoll runs under ppmask, the
\* rest of the program under the process mask.
Blocked == IF pc = "ppoll" THEN ppmask[1] ELSE sigmask

\* b1b_signal_setup(&ppmask): SIGTERM and SIGINT blocked, the old mask
\* saved, b1b_catch_signal installed for both with SA_RESETHAND.
SignalSetup ==
    /\ pc = "ready"
    /\ ppmask = <<>>
    /\ ppmask' = <<sigmask>>
    /\ sigmask' = sigmask \cup Signals
    /\ sigact' = [s \in Signals |-> "b1b_catch_signal"]
    /\ UNCHANGED <<pc, bonds, envVars, logVars, socks, sigpending, b1b_exit_flag, sigsent,
                   fdbVars, garpVars, sent, loopVars>>

\* The loop test that never looks at the flag.
WhileTestIgnoreFlag ==
    /\ pc = "ready"
    /\ ppmask # <<>>
    /\ pc' = "ppoll"
    /\ UNCHANGED <<bonds, envVars, sigVars, logVars, socks, fdbVars, garpVars, sent, loopVars>>

\* main: while (!b1b_exit_flag), into ppoll or out of the loop.
WhileTest ==
    /\ pc = "ready"
    /\ ppmask # <<>>
    /\ pc' = IF b1b_exit_flag = 0 THEN "ppoll" ELSE "exiting"
    /\ UNCHANGED <<bonds, envVars, sigVars, logVars, socks, fdbVars, garpVars, sent, loopVars>>

\* The kernel queues a link notification on the multicast socket.
Arrive ==
    /\ pc \in {"ready", "ppoll", "drain", "service"}
    /\ narrived < MaxEvents
    /\ \E m \in McShapes : queue' = Append(queue, m)
    /\ narrived' = narrived + 1
    /\ UNCHANGED <<pc, bonds, envVars, sigVars, logVars, socks, fdbVars, garpVars, sent, parse_error,
                   drained, calls>>

\* The kernel queues the failover notification of a bond.
Failover ==
    /\ pc \in {"ready", "ppoll", "drain", "service"}
    /\ narrived < MaxFailovers
    /\ \E k \in 1..2 :
          queue' = Append(queue, EventMsg(links[k], IFLA_EVENT_BONDING_FAILOVER))
    /\ narrived' = narrived + 1
    /\ UNCHANGED <<pc, bonds, envVars, sigVars, logVars, socks, fdbVars, garpVars, sent, parse_error,
                   drained, calls>>

\* main: ppoll fails other than by EINTR, or reports an event other than
\* POLLIN: B1B_FATAL.
PpollFail ==
    /\ pc = "ppoll"
    /\ pc' = "exit1"
    /\ UNCHANGED <<bonds, envVars, sigVars, logVars, socks, fdbVars, garpVars, sent, loopVars>>

\* main: ppoll returns POLLIN and b1b_mcast_process starts: every flag is
\* cleared.
PpollReturn ==
    /\ pc = "ppoll"
    /\ queue # <<>>
    /\ bonds' = ClearFlags(bonds)
    /\ parse_error' = FALSE
    /\ drained' = <<>>
    /\ calls' = <<>>
    /\ sent' = <<>>
    /\ errlog' = <<>>
    /\ pc' = "drain"
    /\ UNCHANGED <<envVars, sigVars, released, socks, fdbVars, garpVars, queue, narrived>>

\* Recv that logs every datagram mnl_cb_run fails on.
RecvLogEach ==
    /\ pc = "drain"
    /\ queue # <<>>
    /\ \E r \in {mnl_cb_run(Head(queue), bonds)} :
          /\ bonds' = r.data
          /\ parse_error' = (parse_error \/ r.ret <= MNL_CB_ERROR)
          /\ errlog' = IF r.ret <= MNL_CB_ERROR
                       THEN Append(errlog, ErrParse) ELSE errlog
    /\ drained' = Append(drained, Head(queue))
    /\ queue' = Tail(queue)
    /\ UNCHANGED <<pc, envVars, sigVars, released, socks, fdbVars, garpVars, sent, calls,
                   narrived>>

\* b1b_mcast_process: mnl_socket_recvfrom returns a datagram and mnl_cb_run
\* runs on it; the first failure of the cycle is logged.
Recv ==
    /\ pc = "drain"
    /\ queue # <<>>
    /\ \E r \in {mnl_cb_run(Head(queue), bonds)} :
          /\ bonds' = r.data
          /\ parse_error' = (parse_error \/ r.ret <= MNL_CB_ERROR)
          /\ errlog' = IF r.ret <= MNL_CB_ERROR /\ ~parse_error
                       THEN Append(errlog, ErrParse) ELSE errlog
    /\ drained' = Append(drained, Head(queue))
    /\ queue' = Tail(queue)
    /\ UNCHANGED <<pc, envVars, sigVars, released, socks, fdbVars, garpVars, sent, calls,
                   narrived>>

\* b1b_mcast_process: mnl_socket_recvfrom fails with EAGAIN, the drain ends.
RecvEagain ==
    /\ pc = "drain"
    /\ queue = <<>>
    /\ pc' = "service"
    /\ bi' = 1
    /\ UNCHANGED <<bonds, envVars, sigVars, logVars, socks, fdbreply, added, garpVars, sent, loopVars>>

\* b1b_mcast_process: mnl_socket_recvfrom fails otherwise, B1B_FATAL.
RecvFail ==
    /\ pc = "drain"
    /\ pc' = "exit1"
    /\ UNCHANGED <<bonds, envVars, sigVars, logVars, socks, fdbVars, garpVars, sent, loopVars>>

\* b1b_mcast_process: the service loop passes a bond whose flag is clear.
ServiceSkip ==
    /\ pc = "service"
    /\ bi <= Len(bonds)
    /\ bonds[bi].failover_event = 0
    /\ bi' = bi + 1
    /\ UNCHANGED <<pc, bonds, envVars, sigVars, logVars, socks, fdbreply, added, garpVars, sent, loopVars>>

\* b1b_send_garps(gs, gs->bonds + i) for a bond whose flag is set: the FDB
\* read, one frame per destination in key order, the tree freed.  A reader
\* that fails ends the process before any frame.
SendGarps ==
    /\ pc = "service"
    /\ bi <= Len(bonds)
    /\ bonds[bi].failover_event # 0
    /\ \E reply \in LoopReplies(bonds[bi]) :
       \E t \in RootTrees(bonds[bi].fdbtree) :
       \E r \in {GetFdb(bonds[bi], reply, t)} :
          /\ fdbreply' = reply
          /\ IF r.status = "ok"
             THEN \E out \in {SendLoop(Statics, bonds[bi], r.nodes, 1, <<>>)} :
                     /\ SetStatics(out.st)
                     /\ sent' = sent \o out.frames
                     /\ errlog' = errlog \o SendErrs(Len(sent), Len(out.frames))
                     /\ bonds' = [bonds EXCEPT ![bi] = b1b_fdb_free(@)]
                     /\ bi' = bi + 1
                     /\ pc' = "service"
             ELSE /\ bonds' = [bonds EXCEPT ![bi].fdbtree =
                                  [ptr |-> 0, nodes |-> r.nodes]]
                  /\ errlog' = errlog \o ReqErrs(bonds[bi])
                  /\ pc' = r.status
                  /\ UNCHANGED <<garpVars, sent, bi>>
    /\ calls' = calls \o <<Call("b1b_send_garps", bonds[bi]), Call("getfdb", bonds[bi])>>
    /\ UNCHANGED <<envVars, sigVars, released, socks, added, queue, parse_error, drained,
                   narrived>>

\* b1b_send_garps on a bond whose root was left over from the auto-detect
\* list: following it may as well end the process.
SendGarpsCrash ==
    /\ pc = "service"
    /\ bi <= Len(bonds)
    /\ bonds[bi].failover_event # 0
    /\ bonds[bi].fdbtree.ptr # 0
    /\ calls' = calls \o <<Call("b1b_send_garps", bonds[bi]), Call("getfdb", bonds[bi])>>
    /\ pc' = "crash"
    /\ UNCHANGED <<bonds, envVars, sigVars, logVars, socks, fdbVars, garpVars, sent, queue, parse_error,
                   drained, narrived>>

\* b1b_mcast_process returns to the loop of main.
ServiceEnd ==
    /\ pc = "service"
    /\ bi > Len(bonds)
    /\ pc' = "ready"
    /\ bi' = 0
    /\ UNCHANGED <<bonds, envVars, sigVars, logVars, socks, fdbreply, added, garpVars, sent, loopVars>>

Init ==
    /\ pc = "setup"
    /\ littleEndian \in BOOLEAN
    /\ args \in LoopArgs
    /\ links \in LoopLinks
    /\ listing = LoopListing
    /\ bonds = <<>>
    /\ ArgsParsed /\ ReqIdle /\ FdbIdle /\ GarpIdle /\ LoopIdle /\ SigIdle

Next ==
    \/ ParseBonds
    \/ DetectBonds
    \/ SignalSetup
    \/ WhileTest
    \/ Arrive
    \/ PpollReturn
    \/ PpollFail
    \/ Recv
    \/ RecvEagain
    \/ RecvFail
    \/ ServiceSkip
    \/ SendGarps
    \/ SendGarpsCrash
    \/ ServiceEnd

Spec == Init /\ [][Next]_vars

(***************************************************************************)
(* Properties of the event loop.                                           *)
(***************************************************************************)
\* An RTM_NEWLINK message for ifindex i that carries IFLA_EVENT =
\* bonding failover.
IsFailoverFor(m, i) ==
    /\ m.type = "RTM_NEWLINK"
    /\ m.ifi_index = i
    /\ \E k \in 1..Len(m.attrs) :
          m.attrs[k].t = "IFLA_EVENT" /\ m.attrs[k].n = IFLA_EVENT_BONDING_FAILOVER

\* The number of failover messages for ifindex i drained in this poll cycle.
Failovers(i) == Cardinality({ k \in 1..Len(drained) : IsFailoverFor(drained[k], i) })

\* The number of calls of fn for ifindex i in this poll cycle.
Calls(fn, i) ==
    Cardinality({ k \in 1..Len(calls) : calls[k] = [fn |-> fn, ifindex |-> i] })

\* C1: for every inventory bond, a poll cycle never invokes the bond's FDB
\* reader or runs a GARP burst for it more than once, and when
\* b1b_mcast_process returns from a cycle that drained n >= 1 failover
\* messages for the bond, the reader was invoked exactly once and exactly
\* one burst was run for it.
C1_EventCoalescing ==
    \A k \in 1..Len(bonds) :
        /\ Calls("getfdb", bonds[k].ifindex) <= 1
        /\ Calls("b1b_send_garps", bonds[k].ifindex) <= 1
        /\ (pc = "ready" /\ Failovers(bonds[k].ifindex) >= 1) =>
              /\ Calls("getfdb", bonds[k].ifindex) = 1
              /\ Calls("b1b_send_garps", bonds[k].ifindex) = 1

\* C1 witness: a cycle that drained two failovers of bond2 around one of
\* bond1 has returned after one burst each.
C1_Witness ==
    /\ pc = "ready"
    /\ Len(bonds) = 2
    /\ Len(drained) = 3
    /\ IsFailoverFor(drained[1], bonds[2].ifindex)
    /\ IsFailoverFor(drained[2], bonds[1].ifindex)
    /\ IsFailoverFor(drained[3], bonds[2].ifindex)
    /\ bonds[1].ifindex # bonds[2].ifindex
    /\ Calls("getfdb", bonds[2].ifindex) = 1
    /\ Calls("b1b_send_garps", bonds[2].ifindex) = 1
    /\ Calls("b1b_send_garps", bonds[1].ifindex) = 1
    /\ sent # <<>>

\* C12: within one poll cycle no FDB read is invoked and no frame is sent
\* while the multicast socket is still being drained, and a bond is serviced
\* in the cycle only if a failover message for it was drained in that cycle;
\* when b1b_mcast_process returns, every bond with a drained failover
\* message has been serviced.
C12_DrainBeforeEmit ==
    /\ pc = "drain" => (calls = <<>> /\ sent = <<>>)
    /\ \A k \in 1..Len(bonds) :
          /\ Calls("getfdb", bonds[k].ifindex) >= 1 =>
                Failovers(bonds[k].ifindex) >= 1
          /\ Calls("b1b_send_garps", bonds[k].ifindex) >= 1 =>
                Failovers(bonds[k].ifindex) >= 1
          /\ (pc = "ready" /\ Failovers(bonds[k].ifindex) >= 1) =>
                Calls("b1b_send_garps", bonds[k].ifindex) >= 1
    /\ \A j \in 1..Len(sent) :
          \E k \in 1..Len(bonds) :
             /\ sent[j].ifindex = bonds[k].ifindex
             /\ Failovers(bonds[k].ifindex) >= 1

\* C12 witness: a cycle has returned in which only the second of two bonds
\* had a failover drained; it alone was serviced and frames were sent.
C12_Witness ==
    /\ pc = "ready"
    /\ Len(bonds) = 2
    /\ bonds[1].ifindex # bonds[2].ifindex
    /\ Failovers(bonds[1].ifindex) = 0
    /\ Failovers(bonds[2].ifindex) >= 1
    /\ Len(drained) >= 2
    /\ Calls("getfdb", bonds[1].ifindex) = 0
    /\ Calls("getfdb", bonds[2].ifindex) = 1
    /\ sent # <<>>

\* The 64-bit key of destination a is below that of destination b.
KeyBelow(a, b) == U64Cmp(U64(DstBytes(a)), U64(DstBytes(b))) = -1

\* C13: in one poll cycle the bursts are run in ascending ifindex order of
\* their bonds, whatever the order of the drained messages, and the frames
\* of one bond's burst are sent in strictly ascending order of the 8-byte
\* key read as a 64-bit unsigned integer, so no destination twice.
C13_ServiceOrder ==
    /\ \A j, k \in 1..Len(calls) :
          (j < k /\ calls[j].fn = calls[k].fn) =>
             calls[j].ifindex < calls[k].ifindex
    /\ \A j, k \in 1..Len(sent) :
          j < k =>
             /\ sent[j].ifindex <= sent[k].ifindex
             /\ sent[j].ifindex = sent[k].ifindex =>
                   KeyBelow(sent[j].dst, sent[k].dst)

\* C14: whenever the daemon is outside a GARP burst (inventory built, waiting
\* in the loop, draining, or between two bonds of the service loop) the tree
\* root of every inventory bond is NULL and its FDB set is empty.
C14_FdbLifetime ==
    pc \in {"ready", "ppoll", "drain", "service"} =>
       \A k \in 1..Len(bonds) : bonds[k].fdbtree = NullRoot

\* The kernel's links with ifindex i.
KernelLinks(ls, i) == { l \in SeqToSet(AllLinks(ls)) : l.ifindex = i }

\* C15: whenever the daemon reaches the event loop the inventory is
\* non-empty and every inventory bond is a kernel link of kind "bond" with
\* mode 1, has a nonzero brindex, a brtype of LINUX or OVS, a brname, and
\* the getfdb reader of its brtype.
C15_InventoryEnd ==
    pc = "ready" =>
       /\ Len(bonds) >= 1
       /\ \A k \in 1..Len(bonds) :
             /\ \E l \in KernelLinks(links, bonds[k].ifindex) :
                   l.kind = "bond" /\ l.mode = 1 /\ l.ifname = bonds[k].ifname
             /\ bonds[k].mode = 1
             /\ bonds[k].brindex # 0
             /\ bonds[k].brtype \in {B1B_BR_TYPE_LINUX, B1B_BR_TYPE_OVS}
             /\ bonds[k].brname # NullStr
             /\ bonds[k].getfdb =
                   IF bonds[k].brtype = B1B_BR_TYPE_LINUX
                   THEN "b1b_br_get_fdb" ELSE "b1b_ovs_get_fdb"

\* C15 witness: the loop is reached with a bond on a native bridge and a
\* bond on an OVS bridge.
C15_Witness ==
    /\ pc = "ready"
    /\ Len(bonds) = 2
    /\ bonds[1].brtype = B1B_BR_TYPE_LINUX
    /\ bonds[1].getfdb = "b1b_br_get_fdb"
    /\ bonds[2].brtype = B1B_BR_TYPE_OVS
    /\ bonds[2].getfdb = "b1b_ovs_get_fdb"
    /\ bonds[2].brindex # DatapathIndex

\* The command line name is that of a kernel link of kind "bond" with mode 1
\* and a nonzero master, and the kernel answers the lookup with that name.
ValidArg(ls, name) ==
    \E l \in SeqToSet(AllLinks(ls)) :
       /\ l.ifname = name
       /\ l.kind = "bond"
       /\ l.mode = 1
       /\ l.master # 0

\* The positions of the arguments that fail the validation.
BadArgs == { i \in 1..Len(args) : ~ValidArg(links, args[i]) }

\* C16: once b1b_parse_bonds is over, if one of the named interfaces does
\* not exist, lacks the kind, has a kind other than "bond", lacks the mode,
\* has a mode other than 1, lacks a nonzero master, or is answered under a
\* different name, the process has exited with status 1 instead of reaching
\* the loop, and no argument after the first such one was examined.
C16_CliValidation ==
    (args # <<>> /\ pc # "setup" /\ BadArgs # {}) =>
       /\ pc = "exit1"
       /\ Len(bonds) <= SetMin(BadArgs)

\* C16 witness: the first of two arguments is an alternative name of a
\* usable bond, the second names a usable bond; the process has exited at
\* the first.
C16_Witness ==
    /\ pc = "exit1"
    /\ Len(args) = 2
    /\ args[1] = "uplink"
    /\ ValidArg(links, "bond1")
    /\ ValidArg(links, args[2])
    /\ Len(bonds) = 1
    /\ bonds[1].ifname = "bond1"

\* The kernel's links of kind "bond" with mode 1 whose master is a link of
\* kind "bridge" or "openvswitch".
Usable(ls) ==
    { l \in SeqToSet(AllLinks(ls)) :
         /\ l.kind = "bond"
         /\ l.mode = 1
         /\ l.master # 0
         /\ \E m \in KernelLinks(ls, l.master) :
               m.kind \in {"bridge", "openvswitch"} }

\* The dpif/show listing does not lead from the OVS port l to a bridge the
\* kernel knows: b1b_get_ovs_info is fatal.
OvsUnresolved(l) ==
    /\ \E m \in KernelLinks(links, l.master) : m.kind = "openvswitch"
    /\ LET P == PortLinesOf(listing, l.ifname)
       IN \/ P = {}
          \/ BridgeLinesBefore(listing, SetMin(P)) = {}
          \/ KernelIndex(links,
                 listing[SetMax(BridgeLinesBefore(listing, SetMin(P)))].name) = 0

\* C17: when b1b_detect_bonds returns, the inventory holds exactly the
\* dumped links of kind "bond" with mode 1 and a nonzero master that is a
\* native or OVS bridge, each once; every other link is left out without
\* ending the process; and when no link is usable the process exits with
\* status 1.  The process exits otherwise only where the OVS daemon's
\* listing does not resolve a usable OVS port.
C17_AutoFiltering ==
    (args = <<>> /\ pc # "setup") =>
       /\ pc \in {"ready", "exit1"}
       /\ pc = "ready" =>
             /\ { bonds[k].ifindex : k \in 1..Len(bonds) } =
                   { l.ifindex : l \in Usable(links) }
             /\ Len(bonds) = Cardinality(Usable(links))
             /\ \A k \in 1..Len(bonds) :
                   \E l \in Usable(links) :
                      l.ifindex = bonds[k].ifindex /\ l.ifname = bonds[k].ifname
       /\ Usable(links) = {} => pc = "exit1"
       /\ (pc = "exit1" /\ Usable(links) # {}) =>
             \E l \in Usable(links) : OvsUnresolved(l)

\* C17 witness: of two dumped candidates one is a mode 0 bond on br0 and is
\* left out, the other is usable and is the whole inventory.
C17_Witness ==
    /\ args = <<>>
    /\ pc = "ready"
    /\ \E l \in SeqToSet(links) : l.kind = "bond" /\ l.mode = 0 /\ l.master = 10
    /\ Cardinality(Usable(links)) = 1
    /\ Len(bonds) = 1

\* The kernel's mode 1 bonds whose master is a link of a kind other than
\* "bridge" and "openvswitch", or of no kind.
OffBridge(ls) ==
    { l \in SeqToSet(AllLinks(ls)) :
         /\ l.kind = "bond"
         /\ l.mode = 1
         /\ l.master # 0
         /\ \E m \in KernelLinks(ls, l.master) :
               m.kind \notin {"bridge", "openvswitch"} }

\* C18: a bond whose master is not a native or OVS bridge ends the process
\* with status 1 when it was named on the command line, and is left out of
\* the inventory when it was auto-detected, the other candidates being
\* processed all the same: the loop is reached with every usable bond
\* unless none is usable or the OVS listing fails one.
C18_BridgeRejection ==
    pc # "setup" =>
       /\ (args # <<>> /\ \E i \in 1..Len(args), l \in OffBridge(links) :
                             l.ifname = args[i]) =>
             pc = "exit1"
       /\ args = <<>> =>
             /\ \A l \in OffBridge(links), k \in 1..Len(bonds) :
                   bonds[k].ifindex # l.ifindex
             /\ (Usable(links) # {} /\ \A l \in Usable(links) : ~OvsUnresolved(l)) =>
                   /\ pc = "ready"
                   /\ \A l \in Usable(links) :
                         \E k \in 1..Len(bonds) : bonds[k].ifindex = l.ifindex

\* C18 witness: auto-detect has met a bond on a VRF device before a bond on
\* br0 and has reached the loop with the second alone.
C18_Witness ==
    /\ args = <<>>
    /\ pc = "ready"
    /\ links[1].kind = "bond" /\ links[1].mode = 1 /\ links[1].master = 13
    /\ links[2].kind = "bond" /\ links[2].mode = 1 /\ links[2].master = 10
    /\ Len(bonds) = 1
    /\ bonds[1].ifindex = 2

\* C18 on the command line: the second argument names a bond on a device of
\* no kind and the process has exited.
C18_WitnessCli ==
    /\ Len(args) = 2
    /\ pc = "exit1"
    /\ ValidArg(links, args[1])
    /\ \E l \in OffBridge(links) : l.ifname = args[2] /\ l.master = 14
    /\ Len(bonds) = 2

(***************************************************************************)
(* main.c: termination signals and the way out of the loop.                *)
(***************************************************************************)
\* The signal masks a process may inherit from what started it.
InheritedMasks == { {}, {"SIGINT"} }

\* SIGTERM or SIGINT is sent to the process.
SendSignal ==
    /\ Alive
    /\ Len(sigsent) < MaxSignals
    /\ \E s \in Signals :
          /\ sigpending' = sigpending \cup {s}
          /\ sigsent' = Append(sigsent, [sig |-> s, flag |-> b1b_exit_flag])
    /\ UNCHANGED <<pc, bonds, envVars, logVars, socks, sigmask, ppmask, sigact, b1b_exit_flag,
                   fdbVars, garpVars, sent, loopVars>>

\* The kernel delivers a pending signal that is not blocked to
\* b1b_catch_signal: the disposition is reset (SA_RESETHAND), the handler
\* sets the flag, and a ppoll it interrupted fails with EINTR, from where
\* main continues at the loop test under the process mask.
CatchSignal ==
    /\ Alive
    /\ \E s \in sigpending \ Blocked :
          /\ sigact[s] = "b1b_catch_signal"
          /\ sigact' = [sigact EXCEPT ![s] = "SIG_DFL"]
          /\ sigpending' = sigpending \ {s}
    /\ b1b_exit_flag' = 1
    /\ pc' = IF pc = "ppoll" THEN "ready" ELSE pc
    /\ UNCHANGED <<bonds, envVars, logVars, socks, sigmask, ppmask, sigsent, fdbVars, garpVars,
                   sent, loopVars>>

\* The kernel delivers a pending signal that is not blocked and has its
\* default disposition: the process is killed.
DefaultAction ==
    /\ Alive
    /\ \E s \in sigpending \ Blocked :
          /\ sigact[s] = "SIG_DFL"
          /\ sigpending' = sigpending \ {s}
    /\ pc' = "killed"
    /\ UNCHANGED <<bonds, envVars, logVars, socks, sigmask, ppmask, sigact, b1b_exit_flag,
                   sigsent, fdbVars, garpVars, sent, loopVars>>

\* One release of b1b_gs_free: the resource and whether close succeeded.
Rel(res, fails) == [res |-> res, ok |-> res \notin fails]

\* The sockets of b1b_gs_free in the order of its close calls.
CloseOrder == <<"ovssock", "arpsock", "nlsock", "mcsock">>

\* b1b_gs_free that returns at the first close that fails.
GsFreeStopAtError(open, fails) ==
    Let(SelectSeq(CloseOrder, LAMBDA s : s # "ovssock" \/ s \in open),
        LAMBDA order :
           Let({ k \in 1..Len(order) : order[k] \in fails },
               LAMBDA bad :
                  IF bad = {}
                  THEN [released |-> [k \in 1..Len(order) |-> Rel(order[k], fails)]
                                        \o <<Rel("bonds", {}), Rel("gs", {})>>,
                        errors |-> <<>>]
                  ELSE [released |-> [k \in 1..SetMin(bad) |-> Rel(order[k], fails)],
                        errors |-> <<ErrClose(order[SetMin(bad)])>>]))

\* b1b_gs_free with the sockets open and the closes in `fails` failing:
\* ovssock when it is open, arpsock, nlsock, mcsock, then the inventory and
\* gs; each failed close is logged and the next resource follows.
b1b_gs_free(open, fails) ==
    Let(SelectSeq(CloseOrder, LAMBDA s : s # "ovssock" \/ s \in open),
        LAMBDA order :
           [released |-> [k \in 1..Len(order) |-> Rel(order[k], fails)]
                            \o <<Rel("bonds", {}), Rel("gs", {})>>,
            errors |-> Let(SelectSeq(order, LAMBDA s : s \in fails),
                           LAMBDA failed : [k \in 1..Len(failed) |-> ErrClose(failed[k])])])

\* main after the loop: b1b_gs_free closes every socket of gs and frees the
\* inventory, and main returns 0.
GsFree ==
    /\ pc = "exiting"
    /\ \E fails \in SUBSET socks :
       \E r \in {b1b_gs_free(socks, fails)} :
          /\ released' = r.released
          /\ errlog' = errlog \o r.errors
    /\ socks' = {}
    /\ bonds' = <<>>
    /\ pc' = "exit0"
    /\ UNCHANGED <<envVars, sigVars, fdbVars, garpVars, sent, loopVars>>

\* Auto-detection of two bonds, or one bond named.
SigArgs == { <<>>, <<"bond1">> }

InitSig ==
    /\ pc = "setup"
    /\ littleEndian = TRUE
    /\ args \in SigArgs
    /\ links \in LoopLinks
    /\ listing = LoopListing
    /\ bonds = <<>>
    /\ ArgsParsed /\ ReqIdle /\ FdbIdle /\ GarpIdle /\ LoopIdle
    /\ socks = {"nlsock", "mcsock", "arpsock"}
    /\ sigmask \in InheritedMasks
    /\ ppmask = <<>>
    /\ sigpending = {}
    /\ sigact = [s \in Signals |-> "SIG_DFL"]
    /\ b1b_exit_flag = 0
    /\ sigsent = <<>>
    /\ failing = {}

NextSig ==
    \/ ParseBonds
    \/ DetectBonds
    \/ SignalSetup
    \/ WhileTest
    \/ Failover
    \/ PpollReturn
    \/ PpollFail
    \/ Recv
    \/ RecvEagain
    \/ RecvFail
    \/ ServiceSkip
    \/ SendGarps
    \/ SendGarpsCrash
    \/ ServiceEnd
    \/ GsFree
    \/ SendSignal
    \/ CatchSignal
    \/ DefaultAction

SpecSig == InitSig /\ [][NextSig]_vars

\* A process that is at the loop test or past the loop takes its next step:
\* the program is single-threaded and blocks in ppoll alone.
SpecSigFair == InitSig /\ [][NextSig]_vars /\ WF_vars(WhileTest) /\ WF_vars(GsFree)

(***************************************************************************)
(* Properties of the shutdown.                                             *)
(***************************************************************************)
\* C11: once the loop is running a termination signal that is delivered
\* reaches the handler, never the default action; once the flag is set no
\* poll cycle is started and the process goes on to exit with status 0;
\* and at that exit the flag is set, every socket of gs is closed and the
\* inventory is freed.
C11_CleanShutdown ==
    /\ [](pc = "ppoll" => \A s \in Signals : sigact[s] = "b1b_catch_signal")
    /\ [](pc = "killed" => ppmask = <<>>)
    /\ [](b1b_exit_flag = 1 => pc \in {"ready", "exiting", "exit0"})
    /\ [](pc = "exit0" => (b1b_exit_flag = 1 /\ socks = {} /\ bonds = <<>>))
    /\ (b1b_exit_flag = 1) ~> (pc = "exit0")

\* C11 witness: the process has exited with status 0 after a poll cycle that
\* sent frames, on a signal sent while it was waiting in ppoll.
C11_Witness ==
    /\ pc = "exit0"
    /\ b1b_exit_flag = 1
    /\ socks = {}
    /\ sent # <<>>
    /\ calls # <<>>
    /\ Len(sigsent) = 1

\* C19: SIGTERM and SIGINT are blocked wherever the process is outside
\* ppoll, setup (socket creation and inventory) included, and the handler
\* runs, and so the exit flag changes, nowhere but in ppoll: never during
\* setup, a drain or a burst.
C19_SignalMasking ==
    /\ []((Alive /\ pc # "ppoll") => Signals \subseteq sigmask)
    /\ [][b1b_exit_flag' # b1b_exit_flag => pc = "ppoll"]_vars

\* C20: once a first signal has been handled, a termination signal sent to
\* the live process kills it through the default disposition: it is neither
\* handled nor still pending when the process exits with status 0.
C20_SecondSignal ==
    (pc = "exit0" /\ \E k \in 1..Len(sigsent) : sigsent[k].flag = 1) =>
       sigpending = {}

(***************************************************************************)
(* Properties of the readers and of the loop under failures.               *)
(***************************************************************************)
\* C23: when the request transport returns ERROR while the native reader
\* dumps the bridge FDB on a failover, the error is logged and the daemon
\* keeps running: the service of a bond read by b1b_br_get_fdb never ends
\* the process with status 1 on a dump that ended in an error.
C23_FdbDumpErrorNotFatal ==
    ~ (/\ pc = "exit1"
       /\ bi \in 1..Len(bonds)
       /\ bonds[bi].getfdb = "b1b_br_get_fdb"
       /\ fdbreply # <<>>
       /\ fdbreply[Len(fdbreply)] = ErrorMsg)

\* C25: every destination held in any bond's FDB set, whichever reader
\* filled it, has a MAC other than 00:00:00:00:00:00, and no frame is sent
\* for the all-zero MAC.
C25_NoZeroMac ==
    /\ \A i \in 1..Len(bonds) : \A d \in FdbOf(bonds[i]) : d.mac # MacZero
    /\ \A k \in 1..Len(sent) : sent[k].dst.mac # MacZero

\* C26: the native-bridge reader never inserts a destination whose MAC is
\* ff:ff:ff:ff:ff:ff into an FDB set, and no frame is sent for the broadcast
\* address.
C26_NoBroadcastMac ==
    /\ \A i \in 1..Len(bonds) :
          bonds[i].getfdb = "b1b_br_get_fdb" =>
             \A d \in FdbOf(bonds[i]) : d.mac # MacBcast
    /\ \A k \in 1..Len(sent) : sent[k].dst.mac # MacBcast

\* The value of the first IFLA_EVENT attribute of message m, -1 without one.
FirstEvent(m) ==
    IF \A k \in 1..Len(m.attrs) : m.attrs[k].t # "IFLA_EVENT" THEN -1
    ELSE m.attrs[SetMin({ k \in 1..Len(m.attrs) : m.attrs[k].t = "IFLA_EVENT" })].n

\* Message m asks for the service of the bond with ifindex i.
Matches(m, i) ==
    /\ m.type = "RTM_NEWLINK"
    /\ m.ifi_index = i
    /\ FirstEvent(m) = IFLA_EVENT_BONDING_FAILOVER

C29_NoCarryOver ==
    /\ [][(pc = "ppoll" /\ pc' = "drain") =>
            \A k \in 1..Len(bonds') : bonds'[k].failover_event = 0]_vars
    /\ [](\A k \in 1..Len(bonds) :
             Failovers(bonds[k].ifindex) = 0 =>
                /\ pc \in {"drain", "service"} => bonds[k].failover_event = 0
                /\ Calls("getfdb", bonds[k].ifindex) = 0
                /\ Calls("b1b_send_garps", bonds[k].ifindex) = 0
                /\ \A j \in 1..Len(sent) : sent[j].ifindex # bonds[k].ifindex)

\* C29 witness: a later cycle has returned without a read or a frame for a
\* bond that had a burst in an earlier cycle (the socket address of the
\* emitter still names it) and no failover message in this one.
C29_Witness ==
    /\ pc = "ready"
    /\ narrived >= 2
    /\ drained # <<>>
    /\ sent = <<>>
    /\ \E k \in 1..Len(bonds) :
          /\ sll.sll_ifindex = bonds[k].ifindex
          /\ Failovers(bonds[k].ifindex) = 0
          /\ bonds[k].failover_event = 0
          /\ Calls("getfdb", bonds[k].ifindex) = 0

\* The number of entries e in the log of the cycle.
Logged(e) == Cardinality({ k \in 1..Len(errlog) : errlog[k] = e })

\* The number of drained datagrams mnl_cb_run failed on.
Rejected == Cardinality({ k \in 1..Len(drained) : drained[k] = ErrorMsg })

\* C24: when mnl_cb_run fails on received multicast datagrams, the error is
\* logged once in the poll cycle however many datagrams fail, the drain goes
\* on until the socket would block, the bonds flagged before or after the
\* failure are serviced, and the process stays in the loop.
C24_McastParseErrors ==
    /\ [](Logged(ErrParse) = IF Rejected >= 1 THEN 1 ELSE 0)
    /\ [][(pc = "drain" /\ drained' # drained) => pc' = "drain"]_vars
    /\ [][(pc = "drain" /\ pc' = "service") => queue = <<>>]_vars
    /\ [](pc = "ready" =>
             \A k \in 1..Len(bonds) :
                Failovers(bonds[k].ifindex) >= 1 =>
                   Calls("b1b_send_garps", bonds[k].ifindex) = 1)

\* C24 witness: a cycle has returned that drained a rejected datagram, a
\* failover and another rejected datagram: one message was logged and the
\* bond had its burst.
C24_Witness ==
    /\ pc = "ready"
    /\ Len(drained) = 3
    /\ drained[1] = ErrorMsg
    /\ drained[3] = ErrorMsg
    /\ \E k \in 1..Len(bonds) :
          /\ IsFailoverFor(drained[2], bonds[k].ifindex)
          /\ Calls("b1b_send_garps", bonds[k].ifindex) = 1
    /\ Logged(ErrParse) = 1
    /\ sent # <<>>

(***************************************************************************)
(* The loop with sendmsg calls that fail.                                  *)
(***************************************************************************)
\* Both bonds named on the command line, one failover at a time, and any
\* of the first MaxFrames sendmsg calls of a cycle failing.
InitSend ==
    /\ pc = "setup"
    /\ littleEndian = TRUE
    /\ args = <<"bond2", "bond1">>
    /\ links \in LoopLinks
    /\ listing = LoopListing
    /\ bonds = <<>>
    /\ ArgsParsed /\ ReqIdle /\ FdbIdle /\ GarpIdle /\ LoopIdle
    /\ socks = {"nlsock", "mcsock", "arpsock"}
    /\ sigmask = {}
    /\ ppmask = <<>>
    /\ sigpending = {}
    /\ sigact = [s \in Signals |-> "SIG_DFL"]
    /\ b1b_exit_flag = 0
    /\ sigsent = <<>>
    /\ failing \in SUBSET (1..MaxFrames)

NextSend ==
    \/ ParseBonds
    \/ SignalSetup
    \/ WhileTest
    \/ Failover
    \/ PpollReturn
    \/ Recv
    \/ RecvEagain
    \/ ServiceSkip
    \/ SendGarps
    \/ ServiceEnd

SpecSend == InitSend /\ [][NextSend]_vars

\* The set the reader of the bond under service builds from reply.
ReadOf(reply) == GetFdb(bonds[bi], reply, bonds[bi].fdbtree.nodes)

\* C22: a sendmsg that fails during a burst is logged and the burst goes
\* on: a burst hands one frame per destination of the bond's set to
\* sendmsg whichever calls fail, logs each failure, frees the set and leaves
\* the process in the service loop.
C22_SendFailureNonFatal ==
    [][(/\ pc = "service"
        /\ calls' # calls
        /\ ReadOf(fdbreply').status = "ok") =>
           /\ Len(sent') = Len(sent) + Len(ReadOf(fdbreply').nodes)
           /\ \A k \in 1..Len(ReadOf(fdbreply').nodes) :
                 sent'[Len(sent) + k].dst = ReadOf(fdbreply').nodes[k].dst
           /\ Len(errlog') = Len(errlog) +
                 Cardinality({ k \in (Len(sent) + 1)..Len(sent') : k \in failing })
           /\ bonds'[bi].fdbtree = NullRoot
           /\ pc' = "service"]_vars

\* C22 witness: a cycle has returned whose burst had two frames, the first
\* sendmsg failed and the second did not: both were attempted, one failure
\* was logged, and the set is freed.
C22_Witness ==
    /\ pc = "ready"
    /\ Len(sent) = 2
    /\ 1 \in failing
    /\ 2 \notin failing
    /\ errlog = <<ErrSend>>
    /\ Len(calls) = 2
    /\ \A k \in 1..Len(bonds) : bonds[k].fdbtree = NullRoot

(***************************************************************************)
(* Properties of the teardown.                                             *)
(***************************************************************************)
\* The resources of a release sequence, in order.
ResOf(rel) == [k \in 1..Len(rel) |-> rel[k].res]

\* C21: on a clean shutdown b1b_gs_free releases the OVS socket if it was
\* opened, then the ARP socket, the request socket, the multicast socket,
\* the inventory and the global session, in that order; each close that
\* fails is logged at ERROR, everything after it is still released, and the
\* process exits with status 0.
C21_TeardownOrder ==
    /\ [][(pc = "exiting" /\ pc' # pc) =>
            /\ ResOf(released') =
                  (IF "ovssock" \in socks THEN <<"ovssock">> ELSE <<>>)
                     \o <<"arpsock", "nlsock", "mcsock", "bonds", "gs">>
            /\ \A k \in 1..Len(released') :
                  ~released'[k].ok =>
                     \E j \in (Len(errlog) + 1)..Len(errlog') :
                        errlog'[j] = ErrClose(released'[k].res)
            /\ Len(errlog') - Len(errlog) =
                  Cardinality({ k \in 1..Len(released') : ~released'[k].ok })
            /\ socks' = {}
            /\ bonds' = <<>>
            /\ pc' = "exit0"]_vars
    /\ [](released # <<>> => pc = "exit0")

\* C21 witness: the process has exited with status 0 after a teardown in
\* which the OVS socket was closed first and the close of the ARP socket
\* failed; the sockets after it, the inventory and gs were released.
C21_Witness ==
    /\ pc = "exit0"
    /\ ResOf(released) = <<"ovssock", "arpsock", "nlsock", "mcsock", "bonds", "gs">>
    /\ ~released[2].ok
    /\ released[3].ok
    /\ released[4].ok
    /\ ErrClose("arpsock") \in { errlog[k] : k \in 1..Len(errlog) }
    /\ socks = {}

(***************************************************************************)
(* main.c: the command line.                                               *)
(***************************************************************************)
MaxArgv == 3

\* The words of a command line: the options b1b knows in both spellings,
\* an option it does not know, and two names.
ArgWords == {"-l", "--syslog", "-e", "--stderr", "-d", "--debug", "-x", "bond1", "bond2"}

\* *arg == '-'.
StartsWithDash(arg) == arg \in {"-l", "--syslog", "-e", "--stderr", "-d", "--debug", "-x"}

\* b1b_opt_match: strcmp with the short and the long spelling.
b1b_opt_match(arg, short_opt, long_opt) == arg = short_opt \/ arg = long_opt

\* The state of b1b_parse_args at argv[i].
Opt(status, i, log_dest_set, use_syslog, debug) ==
    [status |-> status, i |-> i, log_dest_set |-> log_dest_set,
     use_syslog |-> use_syslog, debug |-> debug]

RECURSIVE ParseArgsLastWins(_, _)
\* b1b_parse_args that lets a later log destination replace an earlier one.
ParseArgsLastWins(av, o) ==
    IF o.i > Len(av) THEN o
    ELSE IF ~StartsWithDash(av[o.i]) THEN o
    ELSE IF b1b_opt_match(av[o.i], "-l", "--syslog")
    THEN ParseArgsLastWins(av, Opt("ok", o.i + 1, TRUE, TRUE, o.debug))
    ELSE IF b1b_opt_match(av[o.i], "-e", "--stderr")
    THEN ParseArgsLastWins(av, Opt("ok", o.i + 1, TRUE, FALSE, o.debug))
    ELSE IF b1b_opt_match(av[o.i], "-d", "--debug")
    THEN IF o.debug THEN [o EXCEPT !.status = "exit1"]
         ELSE ParseArgsLastWins(av, Opt("ok", o.i + 1, o.log_dest_set, o.use_syslog, TRUE))
    ELSE [o EXCEPT !.status = "exit1"]

RECURSIVE b1b_parse_args(_, _)
\* The loop of b1b_parse_args from argv[o.i]: left at the first argument
\* that does not start with '-', B1B_FATAL on a second log destination, a
\* second -d and an unknown option.
b1b_parse_args(av, o) ==
    IF o.i > Len(av) THEN o
    ELSE IF ~StartsWithDash(av[o.i]) THEN o
    ELSE IF b1b_opt_match(av[o.i], "-l", "--syslog")
    THEN IF o.log_dest_set THEN [o EXCEPT !.status = "exit1"]
         ELSE b1b_parse_args(av, Opt("ok", o.i + 1, TRUE, TRUE, o.debug))
    ELSE IF b1b_opt_match(av[o.i], "-e", "--stderr")
    THEN IF o.log_dest_set THEN [o EXCEPT !.status = "exit1"]
         ELSE b1b_parse_args(av, Opt("ok", o.i + 1, TRUE, FALSE, o.debug))
    ELSE IF b1b_opt_match(av[o.i], "-d", "--debug")
    THEN IF o.debug THEN [o EXCEPT !.status = "exit1"]
         ELSE b1b_parse_args(av, Opt("ok", o.i + 1, o.log_dest_set, o.use_syslog, TRUE))
    ELSE [o EXCEPT !.status = "exit1"]

\* main: b1b_parse_args(argc, argv); the arguments from bindex on are the
\* bond names.
ParseArgs ==
    /\ pc = "start"
    /\ \E o \in {b1b_parse_args(cmdline, Opt("ok", 1, FALSE, b1b_use_syslog, b1b_debug))} :
          /\ b1b_use_syslog' = o.use_syslog
          /\ b1b_debug' = o.debug
          /\ args' = IF o.status = "ok" THEN SubSeq(cmdline, o.i, Len(cmdline)) ELSE <<>>
          /\ pc' = IF o.status = "ok" THEN "open" ELSE o.status
    /\ UNCHANGED <<bonds, littleEndian, links, listing, failing, cmdline, reqVars, rpcVars,
                   sigVars, logVars, socks, fdbVars, garpVars, sent, loopVars>>

\* main: b1b_gs_alloc, b1b_nlsock_open, b1b_mcsock_open, b1b_arpsock_open.
OpenSockets ==
    /\ pc = "open"
    /\ socks' = {"nlsock", "mcsock", "arpsock"}
    /\ pc' = "setup"
    /\ UNCHANGED <<bonds, envVars, sigVars, logVars, fdbVars, garpVars, sent, loopVars>>

\* main is entered with up to MaxArgv arguments, stderr a terminal or not.
InitArgs ==
    /\ pc = "start"
    /\ littleEndian = TRUE
    /\ cmdline \in UNION { [1..n -> ArgWords] : n \in 0..MaxArgv }
    /\ args = <<>>
    /\ b1b_debug = FALSE
    /\ b1b_use_syslog \in BOOLEAN
    /\ links \in LoopLinks
    /\ listing = LoopListing
    /\ bonds = <<>>
    /\ ReqIdle /\ FdbIdle /\ GarpIdle /\ LoopIdle
    /\ socks = {}
    /\ sigmask = {}
    /\ ppmask = <<>>
    /\ sigpending = {}
    /\ sigact = [s \in Signals |-> "SIG_DFL"]
    /\ b1b_exit_flag = 0
    /\ sigsent = <<>>
    /\ failing = {}

NextArgs == ParseArgs \/ OpenSockets \/ ParseBonds \/ DetectBonds

SpecArgs == InitArgs /\ [][NextArgs]_vars

\* The number of leading arguments of av that start with '-'.
LeadLen(av) ==
    IF \A k \in 1..Len(av) : StartsWithDash(av[k]) THEN Len(av)
    ELSE SetMin({ k \in 1..Len(av) : ~StartsWithDash(av[k]) }) - 1

\* How many of the leading options of av are in the set ws.
Given(av, ws) == Cardinality({ k \in 1..LeadLen(av) : av[k] \in ws })

\* The leading options of av hold a second log destination, a second debug
\* option or an option b1b does not know.
BadOptions(av) ==
    \/ Given(av, {"-l", "--syslog", "-e", "--stderr"}) >= 2
    \/ Given(av, {"-d", "--debug"}) >= 2
    \/ Given(av, {"-l", "--syslog", "-e", "--stderr", "-d", "--debug"}) < LeadLen(av)

\* C27: once b1b_parse_args has run, a command line whose leading
\* dash-prefixed arguments hold a second log destination, a second -d or
\* another option has ended the process with status 1 before any socket
\* was opened; otherwise the first argument that does not start with '-'
\* and all after it are the bond names, and no socket is open before the
\* scan is over.
C27_OptionValidation ==
    pc # "start" =>
       IF BadOptions(cmdline)
       THEN pc = "exit1" /\ socks = {} /\ bonds = <<>>
       ELSE /\ args = SubSeq(cmdline, LeadLen(cmdline) + 1, Len(cmdline))
            /\ b1b_debug = (Given(cmdline, {"-d", "--debug"}) = 1)
            /\ pc = "open" => socks = {}
            /\ (pc = "ready" /\ args # <<>>) =>
                  { bonds[k].ifname : k \in 1..Len(bonds) } = SeqToSet(args)

\* C27 witness: the command line -l --stderr bond1 has ended the process
\* with status 1 and no socket open.
C27_Witness ==
    /\ pc = "exit1"
    /\ cmdline = <<"-l", "--stderr", "bond1">>
    /\ socks = {}
    /\ bonds = <<>>

(***************************************************************************)
(* netlink.c: the request transport, datagram by datagram.                 *)
(***************************************************************************)
MaxReqs == 2

\* An unsigned int as its two 16-bit halves <<high, low>>, low below Half.
Half == 65536

UintZero == <<0, 0>>

\* ++x on an unsigned int: past the largest value it is 0 again.
UintInc(x) ==
    IF x[2] + 1 < Half THEN <<x[1], x[2] + 1>> ELSE <<(x[1] + 1) % Half, 0>>

\* x - 1 on an unsigned int.
UintDec(x) ==
    IF x[2] > 0 THEN <<x[1], x[2] - 1>> ELSE <<(x[1] + Half - 1) % Half, Half - 1>>

\* a < b on unsigned ints.
UintLess(a, b) == a[1] < b[1] \/ (a[1] = b[1] /\ a[2] < b[2])

\* A message of a reply: its type, NLM_F_MULTI, nlmsg_seq, and what the
\* caller's callback returns when it is handed the message.
ReplyMsg(type, multi, s, cbret) ==
    [type |-> type, multi |-> multi, seq |-> s, cbret |-> cbret]

\* A mnl_socket_recvfrom that fails, in the place of a datagram.
RecvFailed == <<ReplyMsg("RECV_FAIL", FALSE, UintZero, MNL_CB_ERROR)>>

\* libmnl's mnl_nlmsg_seq_ok: no tracking when either number is 0.
mnl_nlmsg_seq_ok(m, s) ==
    IF m.seq # UintZero /\ s # UintZero THEN m.seq = s ELSE TRUE

RECURSIVE mnl_cb_run_req(_, _, _)
\* mnl_cb_run(gs->buf, bytes, seq, portid, b1b_nlmsg_req_cb_wrapper, &wd)
\* on one datagram: each message in turn, rejected on another sequence
\* number; libmnl ends on NLMSG_ERROR (error) and NLMSG_DONE (stop) itself
\* and hands a data message to the wrapper; the first result <= MNL_CB_STOP
\* ends the run.
mnl_cb_run_req(buf, s, handed) ==
    IF buf = <<>> THEN Res(MNL_CB_OK, handed)
    ELSE IF ~mnl_nlmsg_seq_ok(Head(buf), s) THEN Res(MNL_CB_ERROR, handed)
    ELSE IF Head(buf).type = "NLMSG_ERROR" THEN Res(MNL_CB_ERROR, handed)
    ELSE IF Head(buf).type = "NLMSG_DONE" THEN Res(MNL_CB_STOP, handed)
    ELSE Let(b1b_nlmsg_req_cb_wrapper("msg_cb", Head(buf), handed),
             LAMBDA r : IF r.ret <= MNL_CB_STOP THEN r
                        ELSE mnl_cb_run_req(Tail(buf), s, r.data))

\* The outcome of a request: its result (MNL_CB_OK while it still waits in
\* mnl_socket_recvfrom), the datagrams received, the messages handed on.
ReqOut(ret, used, handed) == [ret |-> ret, used |-> used, handed |-> handed]

RECURSIVE ReqLoop(_, _, _, _)
\* The do-while of b1b_nlmsg_req from the k-th datagram the socket holds.
ReqLoop(dgrams, s, k, handed) ==
    IF k > Len(dgrams) THEN ReqOut(MNL_CB_OK, k - 1, handed)
    ELSE IF dgrams[k] = RecvFailed THEN ReqOut(MNL_CB_ERROR, k, handed)
    ELSE Let(mnl_cb_run_req(dgrams[k], s, handed),
             LAMBDA r : IF r.ret >= MNL_CB_OK THEN ReqLoop(dgrams, s, k + 1, r.data)
                        ELSE ReqOut(r.ret, k, r.data))

\* The flags a caller has stored in gs->nlmsg.
CallerFlags == { {}, {"NLM_F_DUMP"}, {"NLM_F_REQUEST", "NLM_F_DUMP"} }

\* What the socket may hold for a request with sequence number s: the one
\* message of a lookup; a dump over two datagrams; a dump the callback
\* stops or fails in its second datagram; a receive failure; NLMSG_ERROR; a
\* dump whose end has not arrived; NLMSG_DONE in the datagram of the last
\* row, with more behind; and, after an earlier request, a message left
\* over from it.
ReqReplies(s) ==
    { << <<ReplyMsg("DATA", FALSE, s, MNL_CB_OK)>> >>,
      << <<ReplyMsg("DATA", TRUE, s, MNL_CB_OK), ReplyMsg("DATA", TRUE, s, MNL_CB_OK)>>,
         <<ReplyMsg("NLMSG_DONE", TRUE, s, MNL_CB_OK)>> >>,
      << <<ReplyMsg("DATA", TRUE, s, MNL_CB_OK)>>,
         <<ReplyMsg("DATA", TRUE, s, MNL_CB_STOP), ReplyMsg("DATA", TRUE, s, MNL_CB_OK)>>,
         <<ReplyMsg("NLMSG_DONE", TRUE, s, MNL_CB_OK)>> >>,
      << <<ReplyMsg("DATA", TRUE, s, MNL_CB_OK)>>,
         <<ReplyMsg("DATA", TRUE, s, MNL_CB_ERROR)>>,
         <<ReplyMsg("NLMSG_DONE", TRUE, s, MNL_CB_OK)>> >>,
      << <<ReplyMsg("DATA", TRUE, s, MNL_CB_OK)>>, RecvFailed >>,
      << RecvFailed >>,
      << <<ReplyMsg("NLMSG_ERROR", FALSE, s, MNL_CB_OK)>> >>,
      << <<ReplyMsg("DATA", TRUE, s, MNL_CB_OK)>> >>,
      << <<ReplyMsg("DATA", TRUE, s, MNL_CB_OK), ReplyMsg("NLMSG_DONE", TRUE, s, MNL_CB_OK)>>,
         <<ReplyMsg("DATA", FALSE, s, MNL_CB_OK)>> >> }
    \cup (IF s # UintInc(UintZero)
          THEN { << <<ReplyMsg("DATA", TRUE, UintDec(s), MNL_CB_OK)>>,
                    <<ReplyMsg("DATA", FALSE, s, MNL_CB_OK)>> >> }
          ELSE {})

\* b1b_nlmsg_req(gs, msg_cb, data): NLM_F_REQUEST and the next sequence
\* number into the header, mnl_socket_sendto, then the receive loop.  A
\* request whose reply never ends stays in mnl_socket_recvfrom.
NlmsgReq ==
    /\ pc = "setup"
    /\ Len(reqs) < MaxReqs
    /\ \E flags \in CallerFlags, sendok \in BOOLEAN :
       \E s \in {UintInc(seq)} :
       \E reply \in (IF sendok THEN ReqReplies(s) ELSE {<<>>}) :
       \E r \in {IF sendok THEN ReqLoop(reply, s, 1, <<>>)
                 ELSE ReqOut(MNL_CB_ERROR, 0, <<>>)} :
          /\ seq' = s
          /\ nlhdr' = [nlmsg_flags |-> flags \cup {"NLM_F_REQUEST"}, nlmsg_seq |-> s]
          /\ reqs' = Append(reqs, [nlmsg_flags |-> flags \cup {"NLM_F_REQUEST"},
                                   nlmsg_seq |-> s])
          /\ reqin' = [sendok |-> sendok, reply |-> reply]
          /\ reqout' = r
          /\ pc' = IF r.ret >= MNL_CB_OK THEN "recvfrom" ELSE "setup"
    /\ UNCHANGED <<bonds, littleEndian, args, links, listing, failing, cmdline, b1b_debug,
                   b1b_use_syslog, rpcVars, sigVars, logVars, socks, fdbVars, garpVars, sent,
                   loopVars>>

InitReq ==
    /\ pc = "setup"
    /\ littleEndian \in BOOLEAN
    /\ args = <<>>
    /\ links \in LoopLinks
    /\ listing = LoopListing
    /\ bonds = <<>>
    /\ ArgsParsed /\ ReqIdle /\ FdbIdle /\ GarpIdle /\ LoopIdle /\ SigIdle

NextReq == NlmsgReq

SpecReq == InitReq /\ [][NextReq]_vars

RECURSIVE FlatFrom(_, _)
\* The messages of a reply from its k-th datagram on in the order the socket
\* delivers them, each with the number of its datagram.
FlatFrom(reply, k) ==
    IF k > Len(reply) THEN <<>>
    ELSE [j \in 1..Len(reply[k]) |-> [m |-> reply[k][j], d |-> k]] \o FlatFrom(reply, k + 1)

\* Message m ends a request with sequence number s.
Ends(m, s) ==
    \/ m.type \in {"RECV_FAIL", "NLMSG_ERROR", "NLMSG_DONE"}
    \/ m.seq # s
    \/ m.cbret <= MNL_CB_STOP
    \/ ~m.multi

\* The result of the request that message m ends.
EndRet(m, s) ==
    IF m.type \in {"RECV_FAIL", "NLMSG_ERROR"} \/ m.seq # s THEN MNL_CB_ERROR
    ELSE IF m.type = "NLMSG_DONE" THEN MNL_CB_STOP
    ELSE IF m.cbret <= MNL_CB_STOP THEN m.cbret
    ELSE MNL_CB_STOP

\* C30: every request through b1b_nlmsg_req carries NLM_F_REQUEST and a
\* sequence number above that of every earlier request; its callback is
\* handed only messages with that sequence number; it receives datagram
\* after datagram up to the first message on which the callback returns
\* STOP or ERROR, that is NLMSG_DONE or NLMSG_ERROR, that lacks NLM_F_MULTI
\* or that carries another sequence number, and no further; and a callback
\* ERROR, a failed send and a failed receive are returned as MNL_CB_ERROR.
C30_RequestProtocol ==
    /\ \A k \in 1..Len(reqs) : "NLM_F_REQUEST" \in reqs[k].nlmsg_flags
    /\ \A j, k \in 1..Len(reqs) : j < k => UintLess(reqs[j].nlmsg_seq, reqs[k].nlmsg_seq)
    /\ reqs # <<>> =>
          LET s == reqs[Len(reqs)].nlmsg_seq
              f == FlatFrom(reqin.reply, 1)
              ends == { k \in 1..Len(f) : Ends(f[k].m, s) }
          IN  /\ s = nlhdr.nlmsg_seq
              /\ \A k \in 1..Len(reqout.handed) : reqout.handed[k].seq = s
              /\ IF ~reqin.sendok THEN reqout = ReqOut(MNL_CB_ERROR, 0, <<>>) /\ pc = "setup"
                 ELSE IF ends = {}
                 THEN /\ pc = "recvfrom"
                      /\ reqout.used = Len(reqin.reply)
                      /\ reqout.handed = [k \in 1..Len(f) |-> f[k].m]
                 ELSE /\ pc = "setup"
                      /\ reqout.ret = EndRet(f[SetMin(ends)].m, s)
                      /\ reqout.used = f[SetMin(ends)].d
                      /\ reqout.handed =
                            SelectSeq([k \in 1..SetMin(ends) |-> f[k].m],
                                      LAMBDA m : m.type = "DATA" /\ m.seq = s)

\* C30 witness: the second request, with sequence number 2, got a dump of
\* two rows in one datagram and NLMSG_DONE in the next: both datagrams were
\* received, both rows went to the callback, and the result is MNL_CB_STOP.
C30_Witness ==
    /\ Len(reqs) = 2
    /\ reqs[1].nlmsg_seq = <<0, 1>>
    /\ reqs[2].nlmsg_seq = <<0, 2>>
    /\ reqin.sendok
    /\ Len(reqin.reply) = 2
    /\ reqout.ret = MNL_CB_STOP
    /\ reqout.used = 2
    /\ Len(reqout.handed) = 2

(***************************************************************************)
(* ovs.c: the JSON-RPC exchange with ovs-vswitchd.                         *)
(***************************************************************************)
\* The most exchanges a behaviour makes.
MaxRpcs == 2

\* A JSON value: its json_type, its number when it is an integer, its
\* characters when it is a string.  "absent" stands for a member the object
\* does not have.
Json(type, num, str) == [type |-> type, num |-> num, str |-> str]

JsonNull == Json("null", 0, <<>>)

JsonInt(n) == Json("int", n, <<>>)

JsonString(str) == Json("string", 0, str)

JsonAbsent == Json("absent", 0, <<>>)

\* What read(gs->ovssock, gs->buf, gs->bufsize) gave: read is "error" for a
\* negative count, "full" for bufsize bytes, "fits" for fewer; json is what
\* json_tokener_parse_ex makes of the bytes, "invalid" when it returns NULL.
Response(read, json, id, error, result) ==
    [read |-> read, json |-> json, id |-> id, error |-> error, result |-> result]

\* b1b_ovs_rpc_send: ++reqid, and the request object written to the socket.
\* The counter is 64 bits wide and is not taken to its wrap here.
b1b_ovs_rpc_send(rid, method, param) ==
    [reqid |-> rid + 1,
     req |-> [id |-> rid + 1, method |-> method,
              params |-> IF param = NullStr THEN <<>> ELSE <<param>>]]

\* What b1b_json_resp_get does with a member whose type is none of those
\* listed.  Its loop, while ((type = va_arg(ap, json_type)) >= 0), meets the
\* closing -1 as a negative number only where enum json_type is a signed
\* type ("exit1", B1B_FATAL).  Where the enum is unsigned, as gcc and clang
\* make it, the test is always true and va_arg reads on past the arguments
\* given, until a word equals the member's type ("ok") or the read faults
\* ("crash").
VaArgOutcomes == {"exit1", "ok", "crash"}

\* b1b_json_resp_get(resp, name, types..., -1).
b1b_json_resp_get(resp, name, types, ub) ==
    IF resp[name].type = "absent" THEN [status |-> "exit1", member |-> resp[name]]
    ELSE IF resp[name].type \in types THEN [status |-> "ok", member |-> resp[name]]
    ELSE [status |-> ub, member |-> resp[name]]

Digits == <<"0", "1", "2", "3", "4", "5", "6", "7", "8", "9">>

DigitVal(c) == (CHOOSE d \in 1..10 : Digits[d] = c) - 1

RECURSIVE StrToUll(_, _, _)
\* strtoull(str, &end, 10) from the k-th character: the value of the digits
\* in front, and where they end.
StrToUll(str, k, acc) ==
    IF k > Len(str) \/ str[k] \notin SeqToSet(Digits) THEN [val |-> acc, end |-> k]
    ELSE StrToUll(str, k + 1, acc * 10 + DigitVal(str[k]))

\* json_object_get_uint64: an integer as it is, a negative one as 0, a
\* string as the number it starts with, anything else as 0.
json_object_get_uint64(m) ==
    CASE m.type = "int" -> IF m.num < 0 THEN 0 ELSE m.num
      [] m.type = "string" -> StrToUll(m.str, 1, 0).val
      [] OTHER -> 0

\* json_object_get_string_len: 0 for anything but a string.
json_object_get_string_len(m) == IF m.type = "string" THEN Len(m.str) ELSE 0

RpcOut(status, str) == [status |-> status, str |-> str]

\* The end of b1b_ovs_rpc_recv: the member's string into gs->buf, its last
\* character overwritten with the terminator.
RpcCopy(result, member) ==
    IF json_object_get_string_len(member) <= 0 THEN RpcOut("exit1", <<>>)
    ELSE RpcOut(IF result THEN "true" ELSE "false",
                SubSeq(member.str, 1, Len(member.str) - 1))

\* b1b_ovs_rpc_recv(gs, reqid): "true" and "false" are its return values,
\* str is gs->str then.
b1b_ovs_rpc_recv(resp, id, ub) ==
    IF resp.read = "error" THEN RpcOut("exit1", <<>>)
    ELSE IF resp.read = "full" THEN RpcOut("exit1", <<>>)
    ELSE IF resp.json = "invalid" THEN RpcOut("exit1", <<>>)
    ELSE IF resp.json # "object" THEN RpcOut("exit1", <<>>)
    ELSE Let(b1b_json_resp_get(resp, "id", {"int"}, ub.id),
             LAMBDA i :
                IF i.status # "ok" THEN RpcOut(i.status, <<>>)
                ELSE IF json_object_get_uint64(i.member) # id THEN RpcOut("exit1", <<>>)
                ELSE Let(b1b_json_resp_get(resp, "error", {"string", "null"}, ub.error),
                         LAMBDA e :
                            IF e.status # "ok" THEN RpcOut(e.status, <<>>)
                            ELSE IF e.member.type = "string" THEN RpcCopy(FALSE, e.member)
                            ELSE Let(b1b_json_resp_get(resp, "result", {"string"},
                                                       ub.result),
                                     LAMBDA r :
                                        IF r.status # "ok" THEN RpcOut(r.status, <<>>)
                                        ELSE RpcCopy(TRUE, r.member))))

\* The two requests the program makes.
RpcCalls ==
    { [method |-> "dpif/show", param |-> NullStr],
      [method |-> "fdb/show", param |-> "br0"] }

\* The text of a result and of an error, each ending in a newline.
ResultText == <<"r", "\n">>

ErrorText == <<"e", "\n">>

\* What the daemon's socket may hold when the request with this id has been
\* written.
RpcResponses(id) ==
    { Response("error", "invalid", JsonAbsent, JsonAbsent, JsonAbsent),
      Response("fits", "invalid", JsonAbsent, JsonAbsent, JsonAbsent),
      Response("fits", "array", JsonAbsent, JsonAbsent, JsonAbsent),
      Response("full", "object", JsonInt(id), JsonNull, JsonString(ResultText)) }
    \cup { Response("fits", "object", i, e, r) :
              i \in {JsonInt(id), JsonInt(id - 1), JsonString(<<Digits[id + 1]>>),
                     JsonAbsent},
              e \in {JsonNull, JsonString(ErrorText), JsonInt(7), JsonAbsent},
              r \in {JsonString(ResultText), JsonString(<<>>), JsonNull, JsonAbsent} }

\* The first three lines of b1b_get_ovs_info and of b1b_ovs_get_fdb:
\* b1b_ovs_rpc_send, b1b_ovs_rpc_recv, and B1B_FATAL when the daemon
\* answered with an error.  The socket is connected on first use.
OvsRpc ==
    /\ pc = "setup"
    /\ Len(rpcs) < MaxRpcs
    /\ \E call \in RpcCalls, sendok \in BOOLEAN,
          ub \in [{"id", "error", "result"} -> VaArgOutcomes] :
       \E s \in {b1b_ovs_rpc_send(reqid, call.method, call.param)} :
       \E resp \in (IF sendok THEN RpcResponses(s.reqid)
                    ELSE {Response("none", "invalid", JsonAbsent, JsonAbsent,
                                   JsonAbsent)}) :
       \E r \in {IF sendok THEN b1b_ovs_rpc_recv(resp, s.reqid, ub)
                 ELSE RpcOut("exit1", <<>>)} :
          /\ reqid' = s.reqid
          /\ rpcs' = Append(rpcs, [req |-> s.req, resp |-> resp, out |-> r])
          /\ socks' = socks \cup {"ovssock"}
          /\ pc' = CASE r.status = "true" -> "setup"
                     [] r.status = "false" -> "exit1"
                     [] OTHER -> r.status
    /\ UNCHANGED <<bonds, littleEndian, args, links, listing, failing, cmdline, b1b_debug,
                   b1b_use_syslog, reqVars, sigVars, logVars, fdbVars, garpVars, sent,
                   loopVars>>

InitRpc ==
    /\ pc = "setup"
    /\ littleEndian \in BOOLEAN
    /\ args = <<>>
    /\ links \in LoopLinks
    /\ listing = LoopListing
    /\ bonds = <<>>
    /\ ArgsParsed /\ ReqIdle /\ FdbIdle /\ GarpIdle /\ LoopIdle /\ SigIdle

NextRpc == OvsRpc

SpecRpc == InitRpc /\ [][NextRpc]_vars

\* The response of an exchange carries the request's id as an integer.
IdMatches(x) == x.resp.id.type = "int" /\ x.resp.id.num = x.req.id

\* The response of an exchange is a JSON object that has the three members.
HasMembers(x) ==
    /\ x.resp.json = "object"
    /\ \A n \in {"id", "error", "result"} : x.resp[n].type # "absent"

\* C31: in every JSON-RPC exchange the request's id is one more than the
\* previous request's; the process has exited with status 1 when the
\* response's id differs from the request's, when the read filled the
\* buffer, when the response is not an object with the three members, or
\* when its error member is a string; and a result is handed to the parsers
\* only from a response with the request's id, a null error and a string
\* result.
C31_RpcExchange ==
    \A k \in 1..Len(rpcs) :
       /\ k > 1 => rpcs[k].req.id = rpcs[k - 1].req.id + 1
       /\ rpcs[k].resp.read \in {"fits", "full"}
             => /\ ( \/ rpcs[k].resp.read = "full"
                     \/ ~HasMembers(rpcs[k])
                     \/ (rpcs[k].resp.id.type = "int" /\ ~IdMatches(rpcs[k]))
                     \/ rpcs[k].resp.error.type = "string" )
                   => (k = Len(rpcs) /\ pc = "exit1")
                /\ rpcs[k].out.status = "true"
                   => /\ IdMatches(rpcs[k])
                      /\ rpcs[k].resp.error.type = "null"
                      /\ rpcs[k].resp.result.type = "string"

(***************************************************************************)
(* The two OVS parsers from start-up to a burst: bond1, an OVS port, named *)
(* on the command line under every dpif/show listing, then failovers.      *)
(***************************************************************************)
InitParse ==
    /\ pc = "setup"
    /\ littleEndian = TRUE
    /\ args = <<"bond1">>
    /\ links = OvsLinks
    /\ listing \in DpifListings
    /\ bonds = <<>>
    /\ ArgsParsed /\ ReqIdle /\ FdbIdle /\ GarpIdle /\ LoopIdle /\ SigIdle

NextParse ==
    \/ ParseBonds
    \/ SignalSetup
    \/ WhileTest
    \/ Failover
    \/ PpollReturn
    \/ Recv
    \/ RecvEagain
    \/ ServiceSkip
    \/ SendGarps
    \/ ServiceEnd

SpecParse == InitParse /\ [][NextParse]_vars

\* The lines of a dpif/show listing the walk for the bond reads: those after
\* the header, up to the first port line that names the bond.
Scanned(lines, ifname) ==
    2..(IF PortLinesOf(lines, ifname) = {} THEN Len(lines)
        ELSE SetMin(PortLinesOf(lines, ifname)))

\* A line read yields neither one token nor a name and an integer; or no
\* port line names the bond; or no bridge header precedes the first that does.
DpifFailure(lines, ifname) ==
    \/ \E k \in Scanned(lines, ifname) : lines[k].t \notin {"BR", "HDR", "PORT"}
    \/ PortLinesOf(lines, ifname) = {}
    \/ BridgeLinesBefore(lines, SetMin(PortLinesOf(lines, ifname))) = {}

\* A line after the header of an fdb/show listing is neither a LOCAL row nor
\* a row of port, vlan and six address bytes.
FdbFailure(lines) == \E k \in 2..Len(lines) : lines[k].t \notin {"LOCAL", "ROW"}

\* C32: once b1b_get_ovs_info has run on a dpif/show listing in which a line
\* read does not parse, no port line names the bond, or the bond's port line
\* has no bridge header before it, the process has exited with status 1 and
\* nothing was read or sent; once b1b_ovs_get_fdb has run on an fdb/show
\* listing with a line after the header that is neither a LOCAL row nor a
\* full row, the process has exited with status 1 and no frame of that bond
\* was sent, whatever the tree held by then.
C32_ParseFailStop ==
    /\ (pc # "setup" /\ DpifFailure(listing, args[1]))
          => (pc = "exit1" /\ sent = <<>> /\ calls = <<>>)
    /\ FdbFailure(fdbreply)
          => /\ pc = "exit1"
             /\ calls # <<>>
             /\ \A k \in 1..Len(sent) : sent[k].ifindex # calls[Len(calls)].ifindex

\* C32 witness: the fdb/show listing had a good row and then a line that
\* does not parse; the tree holds the row's destination, the process has
\* exited and no frame was sent.
C32_Witness ==
    /\ pc = "exit1"
    /\ bi \in 1..Len(bonds)
    /\ FdbFailure(fdbreply)
    /\ bonds[bi].fdbtree.nodes # <<>>
    /\ sent = <<>>

(***************************************************************************)
(* Properties of the bursts of the event loop.                             *)
(***************************************************************************)
\* C33: every frame a step hands to sendmsg is sent by the burst of the bond
\* under service and carries that bond's ifindex in the socket address, also
\* when the static address still holds another bond's index from an earlier
\* burst; so no frame of a bond's burst leaves on another bond's interface.
C33_EgressBinding ==
    [][\A k \in (Len(sent) + 1)..Len(sent') :
          /\ pc = "service"
          /\ bi \in 1..Len(bonds)
          /\ bonds[bi].failover_event # 0
          /\ sent'[k].ifindex = bonds[bi].ifindex]_vars

\* C33 witness: one poll cycle has sent frames for two bonds, and the static
\* address holds the index of the second.
C33_Witness ==
    /\ pc = "service"
    /\ \E j, k \in 1..Len(sent) :
          /\ j < k
          /\ sent[j].ifindex = bonds[1].ifindex
          /\ sent[k].ifindex = bonds[2].ifindex
          /\ bonds[1].ifindex # bonds[2].ifindex
    /\ sll.sll_ifindex = bonds[2].ifindex

\* C34: at most one bond has a tree root other than NULL at any time; a
\* reader runs only in the service loop, after the drain has ended, in a
\* step that receives nothing from the multicast socket; the frames of a bond
\* are sent in the step that has read its FDB; and when that step leaves the
\* process in the service loop the bond's tree is freed and the loop is at the
\* next bond.
C34_SequentialBursts ==
    /\ [](Cardinality({k \in 1..Len(bonds) : bonds[k].fdbtree # NullRoot}) <= 1)
    /\ [][(calls' # calls /\ calls' # <<>>)
             => /\ pc = "service"
                /\ bi \in 1..Len(bonds)
                /\ queue' = queue
                /\ drained' = drained
                /\ calls' = calls \o <<Call("b1b_send_garps", bonds[bi]),
                                       Call("getfdb", bonds[bi])>>
                /\ pc' = "service"
                      => (bonds'[bi].fdbtree = NullRoot /\ bi' = bi + 1)]_vars
    /\ [][Len(sent') > Len(sent) => (calls' # calls /\ pc' = "service")]_vars

\* C35: the byte the failover flag shares with iftype and on_bridge starts
\* no burst.  Until a message has arrived nothing is read and nothing is
\* sent; while a poll cycle drains and services, the byte is nonzero only
\* for a bond with a failover message among those drained; and every reader
\* call and every frame of the cycle is for such a bond.
C35_NoSpuriousBurst ==
    /\ narrived = 0 => (calls = <<>> /\ sent = <<>> /\ fdbreply = <<>>)
    /\ pc \in {"drain", "service"} =>
          \A k \in 1..Len(bonds) :
             bonds[k].failover_event # 0 => Failovers(bonds[k].ifindex) >= 1
    /\ \A k \in 1..Len(calls) : Failovers(calls[k].ifindex) >= 1
    /\ \A k \in 1..Len(sent) : Failovers(sent[k].ifindex) >= 1

\* C35 witness: auto-detection kept two bonds; the first poll cycle of the
\* process has drained failovers of the second bond alone and has ended its
\* service loop with one reader call, for that bond.
C35_Witness ==
    /\ args = <<>>
    /\ pc = "service"
    /\ bi > Len(bonds)
    /\ Len(bonds) = 2
    /\ narrived = Len(drained) + Len(queue)
    /\ Failovers(bonds[1].ifindex) = 0
    /\ Failovers(bonds[2].ifindex) >= 1
    /\ bonds[1].failover_event = 0
    /\ Calls("getfdb", bonds[1].ifindex) = 0
    /\ Calls("getfdb", bonds[2].ifindex) = 1

====
